---- MODULE Spec2Model ----
(***************************************************************************)
(* Model of the monitoring core of fallensp/server-monitoring:             *)
(*   - src/src/aws/regions.py        query_regions, aggregate_results      *)
(*   - src/src/services/inventory.py get_all_ec2_instances                 *)
(*   - src/src/services/rds_health.py calculate_metric_status              *)
(*                                                                         *)
(* Python values are modelled as follows.                                  *)
(*   list           [type |-> "list", items |-> <<...>>]                   *)
(*   dict result    [type |-> "dict", error |-> msg, instances |-> <<>>]   *)
(*   record (dict)  a function from field names to values; a record        *)
(*                  without a "region" key has no such field               *)
(*   optional       <<>> is None, <<v>> is the present value v             *)
(*   dict (ordered) a sequence of [k |-> key, v |-> value] entries in      *)
(*                  first-insertion order, one entry per key               *)
(***************************************************************************)
EXTENDS Integers, Sequences, FiniteSets, TLC

(***************************************************************************)
(* Bounds of the model.                                                    *)
(***************************************************************************)
MaxRegions == 2        \* longest regions list handed to query_regions
MaxRecords == 2        \* longest record list one region query returns
MaxPool == 2           \* largest max_workers argument explored

(***************************************************************************)
(* Program constants.                                                      *)
(***************************************************************************)
MAX_WORKERS == 10

(***************************************************************************)
(* Input alphabets.                                                        *)
(***************************************************************************)
Regions == {"us-east-1", "eu-west-1", "ap-southeast-1"}
ErrorMessages == {"timeout", "AccessDenied"}

None == <<>>
Some(v) == <<v>>

RECURSIVE SeqsUpTo(_, _)
SeqsUpTo(S, n) ==
    IF n = 0 THEN {<<>>}
    ELSE LET shorter == SeqsUpTo(S, n - 1)
         IN  shorter \cup {Append(s, x) : s \in {t \in shorter : Len(t) = n - 1}, x \in S}

\* The region field a per-region query puts into the records it builds: none,
\* or a region name (get_ec2_instances sets its own region; a generic query
\* function may set another one, here always "us-east-1"). One response is
\* built by one loop, so its records agree on whether they have the field.
RawRegionChoices == {None, Some("us-east-1")}

\* The j-th record of a response; ids within one response are distinct.
RawRecord(j, rr) == IF rr = None THEN [id |-> j] ELSE [id |-> j, region |-> rr[1]]

RecordLists ==
    {[j \in 1..n |-> RawRecord(j, rr)] : n \in 0..MaxRecords, rr \in RawRegionChoices}

PyList(items) == [type |-> "list", items |-> items]

\* What one invocation of query_fn(region) can do: return a list of records or
\* raise an Exception carrying a message.
QueryOutcomes ==
    {[raises |-> FALSE, value |-> PyList(l), error |-> ""] : l \in RecordLists}
    \cup {[raises |-> TRUE, value |-> PyList(<<>>), error |-> m] : m \in ErrorMessages}

NoOutcome == [raises |-> FALSE, value |-> PyList(<<>>), error |-> "-"]

\* ec2.py, get_ec2_instances lines 29-38: the j-th record built for a region
\* (of its fields the id, the state, the name and the region are kept).
Ec2Record(region, j, st) == [id |-> <<region, j>>, state |-> st, name |-> "", region |-> region]

\* get_ec2_instances(region) returns the records of the region's instances, or
\* raises what get_client or the paginator raised (it has no try block).
Ec2Outcomes(region) ==
    UNION {{[raises |-> FALSE,
             value |-> PyList([j \in 1..n |-> Ec2Record(region, j, f[j])]),
             error |-> ""] : f \in [1..n -> {"running", "stopped"}]}
              : n \in 0..(MaxRecords + 1)}
    \cup {[raises |-> TRUE, value |-> PyList(<<>>), error |-> m] : m \in ErrorMessages}

\* A query function of which only the call matters: it returns an empty list
\* or raises.
ProbeOutcomes ==
    {[raises |-> FALSE, value |-> PyList(<<>>), error |-> ""],
     [raises |-> TRUE, value |-> PyList(<<>>), error |-> "timeout"]}

\* What query_fn(region) can do, by the function handed to query_regions.
OutcomesOf(fn, region) ==
    IF fn = "get_ec2_instances" THEN Ec2Outcomes(region)
    ELSE IF fn = "probe" THEN ProbeOutcomes
    ELSE QueryOutcomes

(***************************************************************************)
(* Ordered dict helpers (Python dict semantics).                           *)
(***************************************************************************)
Keys(d) == {d[i].k : i \in 1..Len(d)}

Get(d, key) == d[CHOOSE i \in 1..Len(d) : d[i].k = key].v

\* Variant: d.setdefault(key, val), the first value of a key stays.
DictSet_keep_first(d, key, val) ==
    IF key \in Keys(d) THEN d ELSE Append(d, [k |-> key, v |-> val])

\* d[key] = val: an existing key keeps its position, a new key is appended.
DictSet(d, key, val) ==
    IF key \in Keys(d)
    THEN [i \in 1..Len(d) |-> IF d[i].k = key THEN [k |-> key, v |-> val] ELSE d[i]]
    ELSE Append(d, [k |-> key, v |-> val])

(***************************************************************************)
(* State.                                                                  *)
(***************************************************************************)
VARIABLES
    regions,        \* argument of query_regions: the list of regions
    max_workers,    \* argument of query_regions: the pool size
    pc,             \* position of the calling thread
    fstate,         \* per submitted future: "new", "pending", "running", "finished"
    outcome,        \* per future: what its query_fn invocation did
    invocations,    \* per future: how often query_fn was invoked for it
    finish_order,   \* futures in the order their work items finished
    snapshot,       \* futures as_completed found finished when it was entered
    collected,      \* futures the as_completed loop has already yielded
    results,        \* the results dict of query_regions
    aggregated      \* the list returned by aggregate_results

fanout_vars == <<regions, max_workers, pc, fstate, outcome, invocations,
                 finish_order, snapshot, collected, results, aggregated>>

VARIABLES
    metric_name,        \* argument of calculate_metric_status
    value,              \* argument: the metric value, or None
    total_memory_bytes, \* argument: the instance's memory, or None
    max_connections,    \* argument: the instance's connection limit, or None
    status,             \* what calculate_metric_status returned
    hpc                 \* position of the caller of calculate_metric_status

health_vars == <<metric_name, value, total_memory_bytes, max_connections, status, hpc>>

VARIABLES
    query_fn,           \* argument of query_regions: which query function is passed
    ec2_instances,      \* argument of get_all_alerts
    rds_instances,      \* argument of get_all_alerts
    check_cpu,          \* argument of get_all_alerts
    cloudwatch,         \* per EC2 record: what its get_metric_statistics call does
    alerts,             \* the list get_all_alerts returned
    apc,                \* position of the caller of get_all_alerts
    metrics,            \* argument of get_overall_health: metric name -> value or None
    overall,            \* what get_overall_health returned
    opc                 \* position of the caller of get_overall_health

alert_vars == <<ec2_instances, rds_instances, check_cpu, cloudwatch, alerts, apc>>

overall_vars == <<metrics, overall, opc>>

VARIABLES
    fetch_fn,           \* which metric-fetching function of cloudwatch.py is called
    metric_calls,       \* per requested metric name: what get_metric_statistics does
    fetched,            \* the dict the metric-fetching function returned
    mpc,                \* position of the caller of the metric-fetching function
    billing_path,       \* "app_v2" (get_billing_data) or "services" (dashboard)
    ce,                 \* what the Cost Explorer client and its calls do
    handed,             \* the billing value the consuming layer works with
    bpc,                \* position of the billing fetch
    called_fn,          \* the per-region query function that is called
    called_region,      \* its region argument
    provider,           \* what the provider (describe) call does
    call_result,        \* what the query function did: a value or an exception
    qpc,                \* position of the caller of the query function
    selected_regions,   \* app.py main: the sidebar's region selection
    credentials,        \* what check_aws_credentials reports
    probes,             \* how often main consulted check_aws_credentials
    region_queries,     \* how many region query invocations main caused
    main_ec2,           \* main's ec2_instances
    main_rds,           \* main's rds_instances
    apppc,              \* position of main
    cache,              \* st.cache_data entries of get_all_ec2_instances
    now,                \* seconds since the session started
    cache_arg,          \* the region tuple of the latest call
    cache_returned,     \* what the latest call returned
    fanout_runs,        \* how often the function body (the fan-out) ran
    cpc,                \* what the latest step of the cached function was
    db_instances,       \* argument of fetch_all_health
    fetch_outcomes,     \* per instance: what fetch_health_for_instance meets
    handled,            \* futures the as_completed loop of fetch_all_health has yielded
    health_results,     \* the results list of fetch_all_health
    fpc                 \* position of fetch_all_health

metric_fetch_vars == <<fetch_fn, metric_calls, fetched, mpc>>

billing_vars == <<billing_path, ce, handed, bpc>>

query_call_vars == <<called_fn, called_region, provider, call_result, qpc>>

main_vars == <<selected_regions, credentials, probes, region_queries, main_ec2, main_rds, apppc>>

cache_vars == <<cache, now, cache_arg, cache_returned, fanout_runs, cpc>>

pipeline_vars == <<db_instances, fetch_outcomes, handled, health_results, fpc>>

late_vars == <<metric_fetch_vars, billing_vars, query_call_vars, main_vars,
               cache_vars, pipeline_vars>>

more_vars == <<query_fn, alert_vars, overall_vars, late_vars>>

vars == <<fanout_vars, health_vars, more_vars>>

Futures == 1..Len(regions)

Running == {i \in Futures : fstate[i] = "running"}

\* Variant: the pool starts a thread for every queued work item.
pool_has_idle_thread_unbounded(running, workers) == TRUE

\* regions.py line 27, ThreadPoolExecutor(max_workers=max_workers): a work
\* item leaves the queue only while fewer than max_workers calls run.
pool_has_idle_thread(running, workers) == Cardinality(running) < workers

\* Variant: the loop ends with the first future that is done.
as_completed_first(yielded, futures) == yielded # {} \/ futures = {}

\* regions.py line 33: the as_completed loop ends when every submitted future
\* has been yielded, that is, has finished.
as_completed_exhausted(yielded, futures) == yielded = futures

\* Variant: a work item whose call raised is queued again.
work_item_state_retry(o) == IF o.raises THEN "pending" ELSE "finished"

\* regions.py lines 28-31: a submitted call runs once; its value or its
\* exception is kept in the future, which is then done.
work_item_state(o) == "finished"

(***************************************************************************)
(* regions.py, query_regions lines 35-38: the body of the as_completed     *)
(* loop for one future whose region is `region` and whose invocation did   *)
(* `o`.                                                                    *)
(***************************************************************************)
\* Variant: the descriptor lists a placeholder record for the failed region.
ErrorDescriptor_with_record(msg) ==
    [type |-> "dict", error |-> msg,
     instances |-> <<[id |-> msg, state |-> "stopped", name |-> msg]>>]

\* {"error": str(e), "instances": []}
ErrorDescriptor(msg) == [type |-> "dict", error |-> msg, instances |-> <<>>]

\* Variant: a failed region is left out of the mapping.
store_result_skip_failed(res, region, o) ==
    IF o.raises
    THEN [propagated |-> FALSE, results |-> res]
    ELSE [propagated |-> FALSE, results |-> DictSet(res, region, o.value)]

\* Variant: a failure discards what the other regions delivered so far.
store_result_reset_on_failure(res, region, o) ==
    IF o.raises
    THEN [propagated |-> FALSE, results |-> DictSet(<<>>, region, ErrorDescriptor(o.error))]
    ELSE [propagated |-> FALSE, results |-> DictSet(res, region, o.value)]

\* Variant: future.result() is called outside a try block.
store_result_no_except(res, region, o) ==
    IF o.raises
    THEN [propagated |-> TRUE, results |-> res]
    ELSE [propagated |-> FALSE, results |-> DictSet(res, region, o.value)]

\* The result is the new results dict, and whether an exception left the loop
\* body (the try/except of lines 35-38 catches every Exception).
store_result(res, region, o) ==
    IF o.raises
    THEN [propagated |-> FALSE, results |-> DictSet(res, region, ErrorDescriptor(o.error))]
    ELSE [propagated |-> FALSE, results |-> DictSet(res, region, o.value)]

(***************************************************************************)
(* regions.py, aggregate_results.                                          *)
(***************************************************************************)
\* Variant: item.setdefault("region", region)
stamp_setdefault(item, region) == item @@ ("region" :> region)

\* item["region"] = region
stamp(item, region) == ("region" :> region) @@ item

\* Variant: the items of one entry are taken from the last to the first.
stamp_all_reversed(items, region) ==
    [j \in 1..Len(items) |-> stamp(items[Len(items) + 1 - j], region)]

\* lines 60-68: the loops over the items of one entry, in the list's order
stamp_all(items, region) == [j \in 1..Len(items) |-> stamp(items[j], region)]

\* Variant: a dict entry is appended itself, error text included.
items_of_with_error(result, key) ==
    IF result.type = "dict" THEN <<result>>
    ELSE IF result.type = "list" THEN result.items
    ELSE <<>>

\* The items one mapping entry contributes (lines 58-68): result[key] for a
\* dict holding key, the list itself for a list, nothing otherwise.
items_of(result, key) ==
    IF result.type = "dict" /\ key \in DOMAIN result THEN result[key]
    ELSE IF result.type = "list" THEN result.items
    ELSE <<>>

RECURSIVE aggregate_from(_, _, _)
aggregate_from(region_results, key, n) ==
    IF n > Len(region_results) THEN <<>>
    ELSE stamp_all(items_of(region_results[n].v, key), region_results[n].k)
         \o aggregate_from(region_results, key, n + 1)

aggregate_results(region_results, key) == aggregate_from(region_results, key, 1)

\* The stamping is done in place: afterwards the mapping holds the stamped
\* records too.
stamped_value(result, key, region) ==
    IF result.type = "dict" /\ key \in DOMAIN result
    THEN [result EXCEPT ![key] = stamp_all(result[key], region)]
    ELSE IF result.type = "list"
    THEN [result EXCEPT !.items = stamp_all(result.items, region)]
    ELSE result

stamped_results(region_results, key) ==
    [n \in 1..Len(region_results) |->
        [k |-> region_results[n].k,
         v |-> stamped_value(region_results[n].v, key, region_results[n].k)]]

(***************************************************************************)
(* Initial state: a caller has just entered query_regions(regions,         *)
(* query_fn, max_workers); results = {} and no future exists yet.          *)
(***************************************************************************)
\* Two names are enough for equal and for different regions in one list.
RegionLists == SeqsUpTo({"us-east-1", "eu-west-1"}, MaxRegions)

MetricFetchIdle ==
    /\ fetch_fn = "none"
    /\ metric_calls = <<>>
    /\ fetched = <<>>
    /\ mpc = "idle"

BillingIdle ==
    /\ billing_path = "none"
    /\ ce = <<>>
    /\ handed = <<>>
    /\ bpc = "idle"

QueryCallIdle ==
    /\ called_fn = "none"
    /\ called_region = ""
    /\ provider = <<>>
    /\ call_result = <<>>
    /\ qpc = "idle"

MainIdle ==
    /\ selected_regions = <<>>
    /\ credentials = FALSE
    /\ probes = 0
    /\ region_queries = 0
    /\ main_ec2 = <<>>
    /\ main_rds = <<>>
    /\ apppc = "idle"

CacheIdle ==
    /\ cache = <<>>
    /\ now = 0
    /\ cache_arg = <<>>
    /\ cache_returned = <<>>
    /\ fanout_runs = 0
    /\ cpc = "idle"

PipelineIdle ==
    /\ db_instances = <<>>
    /\ fetch_outcomes = <<>>
    /\ handled = {}
    /\ health_results = <<>>
    /\ fpc = "idle"

LateIdle ==
    /\ MetricFetchIdle
    /\ BillingIdle
    /\ QueryCallIdle
    /\ MainIdle
    /\ CacheIdle
    /\ PipelineIdle

AlertIdle ==
    /\ ec2_instances = <<>>
    /\ rds_instances = <<>>
    /\ check_cpu = FALSE
    /\ cloudwatch = <<>>
    /\ alerts = <<>>
    /\ apc = "idle"

OverallIdle ==
    /\ metrics = <<>>
    /\ overall = ""
    /\ opc = "idle"

HealthIdle ==
    /\ metric_name = ""
    /\ value = None
    /\ total_memory_bytes = None
    /\ max_connections = None
    /\ status = ""
    /\ hpc = "idle"

Init ==
    /\ LateIdle
    /\ HealthIdle
    /\ AlertIdle
    /\ OverallIdle
    /\ query_fn = "query_fn"
    /\ regions \in RegionLists
    /\ max_workers \in 1..MaxPool
    /\ pc = "submit"
    /\ fstate = [i \in 1..Len(regions) |-> "new"]
    /\ outcome = [i \in 1..Len(regions) |-> NoOutcome]
    /\ invocations = [i \in 1..Len(regions) |-> 0]
    /\ finish_order = <<>>
    /\ snapshot = {}
    /\ collected = {}
    /\ results = <<>>
    /\ aggregated = <<>>

(***************************************************************************)
(* query_regions lines 28-31: executor.submit(query_fn, region) for the    *)
(* next region of the list; the work item joins the pool's FIFO queue.     *)
(***************************************************************************)
Submit ==
    /\ pc = "submit"
    /\ \E i \in Futures :
        /\ fstate[i] = "new"
        /\ \A j \in 1..(i - 1) : fstate[j] # "new"
        /\ fstate' = [fstate EXCEPT ![i] = "pending"]
    /\ UNCHANGED <<regions, max_workers, pc, outcome, invocations, finish_order,
                   snapshot, collected, results, aggregated, health_vars, more_vars>>

(***************************************************************************)
(* A pool thread takes the head of the work queue and calls                *)
(* query_fn(region). The pool never has more than max_workers threads.     *)
(***************************************************************************)
WorkerStart ==
    /\ \E i \in Futures :
        /\ fstate[i] = "pending"
        /\ \A j \in 1..(i - 1) : fstate[j] # "pending"
        /\ pool_has_idle_thread(Running, max_workers)
        /\ fstate' = [fstate EXCEPT ![i] = "running"]
        /\ invocations' = [invocations EXCEPT ![i] = @ + 1]
    /\ UNCHANGED <<regions, max_workers, pc, outcome, finish_order,
                   snapshot, collected, results, aggregated, health_vars, more_vars>>

(***************************************************************************)
(* query_fn(region) returns or raises; the work item stores the value or   *)
(* the exception in its future and marks it finished.                      *)
(***************************************************************************)
WorkerFinish ==
    /\ \E i \in Running :
       \E o \in OutcomesOf(query_fn, regions[i]) :
        /\ fstate' = [fstate EXCEPT ![i] = work_item_state(o)]
        /\ outcome' = [outcome EXCEPT ![i] = o]
        /\ finish_order' = Append(finish_order, i)
    /\ UNCHANGED <<regions, max_workers, pc, invocations,
                   snapshot, collected, results, aggregated, health_vars, more_vars>>

(***************************************************************************)
(* query_regions line 33: every region is submitted and the loop enters    *)
(* as_completed, which records the futures that are already finished.      *)
(***************************************************************************)
AsCompleted ==
    /\ pc = "submit"
    /\ \A i \in Futures : fstate[i] # "new"
    /\ snapshot' = {i \in Futures : fstate[i] = "finished"}
    /\ pc' = "collect"
    /\ UNCHANGED <<regions, max_workers, fstate, outcome, invocations,
                   finish_order, collected, results, aggregated, health_vars, more_vars>>

\* The future as_completed may yield next: any of the futures that were
\* finished on entry (a set, iterated in no particular order), and after
\* those the others in the order they finished.
NextYield ==
    IF snapshot \ collected # {}
    THEN snapshot \ collected
    ELSE LET later == SelectSeq(finish_order, LAMBDA i : i \notin collected)
         IN  IF later = <<>> THEN {} ELSE {Head(later)}

(***************************************************************************)
(* query_regions lines 33-38: one iteration of the as_completed loop.      *)
(***************************************************************************)
Collect ==
    /\ pc = "collect"
    /\ \E i \in NextYield :
        LET r == store_result(results, regions[i], outcome[i])
        IN  /\ results' = r.results
            /\ pc' = IF r.propagated THEN "raised" ELSE pc
            /\ collected' = collected \cup {i}
    /\ UNCHANGED <<regions, max_workers, fstate, outcome, invocations,
                   finish_order, snapshot, aggregated, health_vars, more_vars>>

(***************************************************************************)
(* query_regions lines 27, 40: as_completed is exhausted, the with block   *)
(* shuts the pool down and results is returned.                            *)
(***************************************************************************)
Return ==
    /\ pc = "collect"
    /\ as_completed_exhausted(collected, Futures)
    /\ pc' = "returned"
    /\ UNCHANGED <<regions, max_workers, fstate, outcome, invocations,
                   finish_order, snapshot, collected, results, aggregated, health_vars, more_vars>>

(***************************************************************************)
(* inventory.py line 20: aggregate_results(region_results, key=            *)
(* "instances") on the mapping query_regions returned.                     *)
(***************************************************************************)
Aggregate ==
    /\ pc = "returned"
    /\ aggregated' = aggregate_results(results, "instances")
    /\ results' = stamped_results(results, "instances")
    /\ pc' = "aggregated"
    /\ UNCHANGED <<regions, max_workers, fstate, outcome, invocations,
                   finish_order, snapshot, collected, health_vars, more_vars>>

(***************************************************************************)
(* rds_health.py.  Numbers are fixed-point: a metric value or threshold x  *)
(* is the integer x * Scale (CPUUtilization 70.0 is 70000, ReadLatency     *)
(* 0.020 s is 20, the ratio 0.25 is 250).  Byte counts are whole MiB and   *)
(* connection counts are whole connections; the code only uses their       *)
(* quotient value / total, which is kept as an exact fraction.             *)
(***************************************************************************)
Scale == 1000

HEALTHY == "healthy"
WARNING == "warning"
CRITICAL == "critical"
UNKNOWN == "unknown"
ZeroDivisionError == "ZeroDivisionError"

METRIC_THRESHOLDS ==
    [CPUUtilization      |-> [warning |-> 70000, critical |-> 90000, is_upper_bound |-> TRUE],
     FreeableMemory      |-> [warning |-> 250,   critical |-> 100,   is_upper_bound |-> FALSE],
     ReadLatency         |-> [warning |-> 20,    critical |-> 50,    is_upper_bound |-> TRUE],
     WriteLatency        |-> [warning |-> 20,    critical |-> 50,    is_upper_bound |-> TRUE],
     DiskQueueDepth      |-> [warning |-> 10000, critical |-> 50000, is_upper_bound |-> TRUE],
     DatabaseConnections |-> [warning |-> 800,   critical |-> 950,   is_upper_bound |-> TRUE]]

\* 2 * 1024 * 1024 * 1024 bytes, in MiB
DEFAULT_TOTAL_MEMORY == 2048

\* a / b on Python numbers: an exact fraction, or ZeroDivisionError
Divide(a, b) == [num |-> a, den |-> b, error |-> (b = 0)]

\* ratio < threshold and ratio >= threshold for a fraction with den > 0
RatioLess(ratio, threshold) == ratio.num * Scale < threshold * ratio.den
RatioAtLeast(ratio, threshold) == ratio.num * Scale >= threshold * ratio.den

\* Variant: only a missing total falls back to the default.
memory_status_unguarded(v, total, warning_threshold, critical_threshold) ==
    LET total_bytes == IF total = None THEN DEFAULT_TOTAL_MEMORY ELSE total[1]
        ratio == Divide(v, total_bytes)
    IN  IF ratio.error THEN ZeroDivisionError
        ELSE IF RatioLess(ratio, critical_threshold) THEN CRITICAL
        ELSE IF RatioLess(ratio, warning_threshold) THEN WARNING
        ELSE HEALTHY

\* Variant: the bands include their boundaries (ratio <= threshold).
memory_status_inclusive(v, total, warning_threshold, critical_threshold) ==
    LET total_bytes == IF total = None \/ total[1] <= 0
                       THEN DEFAULT_TOTAL_MEMORY ELSE total[1]
        ratio == Divide(v, total_bytes)
    IN  IF ratio.error THEN ZeroDivisionError
        ELSE IF ratio.num * Scale <= critical_threshold * ratio.den THEN CRITICAL
        ELSE IF ratio.num * Scale <= warning_threshold * ratio.den THEN WARNING
        ELSE HEALTHY

\* Variant: without a usable total the metric is taken to be fine.
memory_status_healthy_fallback(v, total, warning_threshold, critical_threshold) ==
    IF total = None \/ total[1] <= 0 THEN HEALTHY
    ELSE LET ratio == Divide(v, total[1])
         IN  IF ratio.error THEN ZeroDivisionError
             ELSE IF RatioLess(ratio, critical_threshold) THEN CRITICAL
             ELSE IF RatioLess(ratio, warning_threshold) THEN WARNING
             ELSE HEALTHY

\* lines 75-85: the FreeableMemory branch
memory_status(v, total, warning_threshold, critical_threshold) ==
    LET total_bytes == IF total = None \/ total[1] <= 0
                       THEN DEFAULT_TOTAL_MEMORY ELSE total[1]
        ratio == Divide(v, total_bytes)
    IN  IF ratio.error THEN ZeroDivisionError
        ELSE IF RatioLess(ratio, critical_threshold) THEN CRITICAL
        ELSE IF RatioLess(ratio, warning_threshold) THEN WARNING
        ELSE HEALTHY

\* Variant: the usage bands exclude their boundaries (ratio > threshold).
connections_status_strict(v, max_conn, warning_threshold, critical_threshold) ==
    IF max_conn = None \/ max_conn[1] <= 0 THEN HEALTHY
    ELSE LET ratio == Divide(v, max_conn[1])
         IN  IF ratio.error THEN ZeroDivisionError
             ELSE IF ratio.num * Scale > critical_threshold * ratio.den THEN CRITICAL
             ELSE IF ratio.num * Scale > warning_threshold * ratio.den THEN WARNING
             ELSE HEALTHY

\* lines 87-97: the DatabaseConnections branch
connections_status(v, max_conn, warning_threshold, critical_threshold) ==
    IF max_conn = None \/ max_conn[1] <= 0 THEN HEALTHY
    ELSE LET ratio == Divide(v, max_conn[1])
         IN  IF ratio.error THEN ZeroDivisionError
             ELSE IF RatioAtLeast(ratio, critical_threshold) THEN CRITICAL
             ELSE IF RatioAtLeast(ratio, warning_threshold) THEN WARNING
             ELSE HEALTHY

\* Variant: the bands exclude their boundaries (value > threshold).
standard_status_strict(v, warning_threshold, critical_threshold, is_upper_bound) ==
    IF is_upper_bound
    THEN IF v > critical_threshold THEN CRITICAL
         ELSE IF v > warning_threshold THEN WARNING
         ELSE HEALTHY
    ELSE IF v < critical_threshold THEN CRITICAL
         ELSE IF v < warning_threshold THEN WARNING
         ELSE HEALTHY

\* lines 99-111: the standard threshold comparison
standard_status(v, warning_threshold, critical_threshold, is_upper_bound) ==
    IF is_upper_bound
    THEN IF v >= critical_threshold THEN CRITICAL
         ELSE IF v >= warning_threshold THEN WARNING
         ELSE HEALTHY
    ELSE IF v <= critical_threshold THEN CRITICAL
         ELSE IF v <= warning_threshold THEN WARNING
         ELSE HEALTHY

calculate_metric_status(name, val, total, max_conn) ==
    IF val = None THEN UNKNOWN
    ELSE IF name \notin DOMAIN METRIC_THRESHOLDS THEN UNKNOWN
    ELSE LET t == METRIC_THRESHOLDS[name]
         IN  IF name = "FreeableMemory"
             THEN memory_status(val[1], total, t.warning, t.critical)
             ELSE IF name = "DatabaseConnections"
             THEN connections_status(val[1], max_conn, t.warning, t.critical)
             ELSE standard_status(val[1], t.warning, t.critical, t.is_upper_bound)

(***************************************************************************)
(* Inputs of the classifier.                                               *)
(***************************************************************************)
MaxValue == 100        \* the small metric values 0..MaxValue are all explored

MetricNames == DOMAIN METRIC_THRESHOLDS \cup {"NetworkThroughput"}

\* Values next to every band boundary: of the table (fixed-point), of the
\* 2 GiB default (204.8 and 512 MiB) and the examples 95, 75 and 10 percent.
BoundaryValues ==
    UNION {{t - 1, t, t + 1} : t \in {20, 50, 10000, 50000, 70000, 90000}}
    \cup {204, 205, 511, 512, 513}
    \cup {95000, 75000}

MetricValues == {None} \cup {Some(v) : v \in (-1..MaxValue) \cup BoundaryValues}

TotalMemories == {None} \cup {Some(t) : t \in {-1, 0, 20, 40, 100}}

ConnectionLimits == {None} \cup {Some(m) : m \in {-1, 0, 20, 100}}

FanOutIdle ==
    /\ query_fn = "none"
    /\ regions = <<>>
    /\ max_workers = MAX_WORKERS
    /\ pc = "idle"
    /\ fstate = <<>>
    /\ outcome = <<>>
    /\ invocations = <<>>
    /\ finish_order = <<>>
    /\ snapshot = {}
    /\ collected = {}
    /\ results = <<>>
    /\ aggregated = <<>>

InitHealth ==
    /\ LateIdle
    /\ FanOutIdle
    /\ AlertIdle
    /\ OverallIdle
    /\ metric_name \in MetricNames
    /\ value \in MetricValues
    /\ total_memory_bytes \in TotalMemories
    /\ max_connections \in ConnectionLimits
    /\ status = ""
    /\ hpc = "call"

(***************************************************************************)
(* A caller evaluates calculate_metric_status(metric_name, value,          *)
(* total_memory_bytes, max_connections).                                   *)
(***************************************************************************)
Classify ==
    /\ hpc = "call"
    /\ status' = calculate_metric_status(metric_name, value,
                                         total_memory_bytes, max_connections)
    /\ hpc' = "done"
    /\ UNCHANGED <<metric_name, value, total_memory_bytes, max_connections,
                   fanout_vars, more_vars>>

NextHealth == Classify

SpecHealth == InitHealth /\ [][NextHealth]_vars

(***************************************************************************)
(* rds_health.py, get_overall_health(metrics, **kwargs).  The kwargs are   *)
(* the variables total_memory_bytes and max_connections (kwargs.get gives  *)
(* None for a missing one).                                                *)
(***************************************************************************)
MaxMetrics == 3        \* most entries of a metrics dict

\* lines 164-173: the status of every entry of the dict
statuses_of(m, total, max_conn) ==
    [n \in DOMAIN m |-> calculate_metric_status(n, m[n], total, max_conn)]

\* Variant: any UNKNOWN status makes the overall status UNKNOWN.
worst_status_unknown_wins(statuses) ==
    LET present == {statuses[n] : n \in DOMAIN statuses}
    IN  IF CRITICAL \in present THEN CRITICAL
        ELSE IF WARNING \in present THEN WARNING
        ELSE IF UNKNOWN \in present \/ present = {} THEN UNKNOWN
        ELSE HEALTHY

\* lines 175-182: the worst status of the list
worst_status(statuses) ==
    IF \E n \in DOMAIN statuses : statuses[n] = CRITICAL THEN CRITICAL
    ELSE IF \E n \in DOMAIN statuses : statuses[n] = WARNING THEN WARNING
    ELSE IF \A n \in DOMAIN statuses : statuses[n] = UNKNOWN THEN UNKNOWN
    ELSE HEALTHY

get_overall_health(m, total, max_conn) == worst_status(statuses_of(m, total, max_conn))

\* Values that land in different bands depending on the metric: 0 is HEALTHY
\* for CPU and latency and CRITICAL for free memory, 600 is CRITICAL for
\* latency and HEALTHY for memory, 75000 and 95000 are the CPU examples.
OverallValues == {None, Some(0), Some(600), Some(75000), Some(95000)}

MetricDicts ==
    UNION {[S -> OverallValues] :
           S \in {T \in SUBSET MetricNames : Cardinality(T) <= MaxMetrics}}

InitOverall ==
    /\ LateIdle
    /\ FanOutIdle
    /\ AlertIdle
    /\ metric_name = ""
    /\ value = None
    /\ status = ""
    /\ hpc = "idle"
    /\ total_memory_bytes \in {None, Some(100)}
    /\ max_connections \in {None, Some(100)}
    /\ metrics \in MetricDicts
    /\ overall = ""
    /\ opc = "call"

(***************************************************************************)
(* A caller evaluates get_overall_health(metrics, total_memory_bytes=...,  *)
(* max_connections=...).                                                   *)
(***************************************************************************)
OverallHealth ==
    /\ opc = "call"
    /\ overall' = get_overall_health(metrics, total_memory_bytes, max_connections)
    /\ opc' = "done"
    /\ UNCHANGED <<metrics, fanout_vars, health_vars, query_fn, alert_vars, late_vars>>

NextOverall == OverallHealth

SpecOverall == InitOverall /\ [][NextOverall]_vars

(***************************************************************************)
(* cloudwatch.py, get_latest_cpu_utilization.  A response of               *)
(* get_metric_statistics is the exception it raised or its Datapoints      *)
(* list; an Average is a fixed-point percentage like the classifier's      *)
(* values.                                                                 *)
(***************************************************************************)
Datapoint(ts, avg) == [Timestamp |-> ts, Average |-> avg]

MetricFailure == [raises |-> TRUE, Datapoints |-> <<>>]

MetricResponse(datapoints) == [raises |-> FALSE, Datapoints |-> datapoints]

\* max(datapoints, key=lambda x: x["Timestamp"]): the first of the latest
latest_datapoint(datapoints) ==
    datapoints[CHOOSE i \in 1..Len(datapoints) :
                  /\ \A j \in 1..Len(datapoints) :
                        datapoints[j].Timestamp <= datapoints[i].Timestamp
                  /\ \A j \in 1..(i - 1) :
                        datapoints[j].Timestamp < datapoints[i].Timestamp]

\* Variant: the call is made outside the try block.
get_latest_cpu_utilization_no_try(response) ==
    IF response.raises THEN [raised |-> TRUE, cpu |-> None]
    ELSE IF response.Datapoints # <<>>
    THEN [raised |-> FALSE, cpu |-> Some(latest_datapoint(response.Datapoints).Average)]
    ELSE [raised |-> FALSE, cpu |-> None]

\* lines 107-141: the latest Average, or None without datapoints or when the
\* call raised (the except branch passes); raised tells whether an exception
\* left the function.
get_latest_cpu_utilization(response) ==
    IF response.raises THEN [raised |-> FALSE, cpu |-> None]
    ELSE IF response.Datapoints # <<>>
    THEN [raised |-> FALSE, cpu |-> Some(latest_datapoint(response.Datapoints).Average)]
    ELSE [raised |-> FALSE, cpu |-> None]

(***************************************************************************)
(* alerts.py.  A message is the sequence of the pieces the f-string joins. *)
(***************************************************************************)
\* dict.get(key, default)
DictGet(d, key, default) == IF key \in DOMAIN d THEN d[key] ELSE default

Alert(type, id, name, region, severity, message) ==
    [resource_type |-> type, resource_id |-> id, resource_name |-> name,
     region |-> region, severity |-> severity, message |-> message]

\* f"{cpu:.1f}": one decimal, rounded (a tie of the fixed-point value is
\* rounded up; Python decides a tie by the binary value of the float).
FormatCpu(cpu) ==
    LET tenths == (cpu + 50) \div 100
    IN  <<ToString(tenths \div 10), ".", ToString(tenths % 10)>>

\* Variant: any instance that is not running counts as stopped.
stopped_alerts_not_running(instance) ==
    LET instance_id == DictGet(instance, "id", "")
    IN  IF DictGet(instance, "state", "") # "running"
        THEN <<Alert("EC2", instance_id, DictGet(instance, "name", instance_id),
                     DictGet(instance, "region", "unknown"), "warning",
                     <<"Instance is stopped">>)>>
        ELSE <<>>

\* detect_ec2_alerts lines 46-55
stopped_alerts(instance) ==
    LET instance_id == DictGet(instance, "id", "")
    IN  IF DictGet(instance, "state", "") = "stopped"
        THEN <<Alert("EC2", instance_id, DictGet(instance, "name", instance_id),
                     DictGet(instance, "region", "unknown"), "warning",
                     <<"Instance is stopped">>)>>
        ELSE <<>>

\* Variant: the bands include their boundaries (cpu >= 90, cpu >= 70).
cpu_band_inclusive(cpu) ==
    IF cpu >= 90 * Scale THEN "critical"
    ELSE IF cpu >= 70 * Scale THEN "warning"
    ELSE "none"

\* detect_ec2_alerts lines 61 and 70: cpu > 90, elif cpu > 70
cpu_band(cpu) ==
    IF cpu > 90 * Scale THEN "critical"
    ELSE IF cpu > 70 * Scale THEN "warning"
    ELSE "none"

\* Variant: a missing CPU value is reported as a warning.
cpu_alerts_absent_warns(instance, check, response) ==
    LET instance_id == DictGet(instance, "id", "")
        name == DictGet(instance, "name", instance_id)
        region == DictGet(instance, "region", "unknown")
        cpu == get_latest_cpu_utilization(response).cpu
    IN  IF ~(check /\ DictGet(instance, "state", "") = "running") THEN <<>>
        ELSE IF cpu = None
        THEN <<Alert("EC2", instance_id, name, region, "warning",
                     <<"CPU utilization unavailable">>)>>
        ELSE IF cpu_band(cpu[1]) = "critical"
        THEN <<Alert("EC2", instance_id, name, region, "critical",
                     <<"High CPU utilization: ">> \o FormatCpu(cpu[1]) \o <<"%">>)>>
        ELSE IF cpu_band(cpu[1]) = "warning"
        THEN <<Alert("EC2", instance_id, name, region, "warning",
                     <<"Elevated CPU utilization: ">> \o FormatCpu(cpu[1]) \o <<"%">>)>>
        ELSE <<>>

\* detect_ec2_alerts lines 57-78
cpu_alerts(instance, check, response) ==
    LET instance_id == DictGet(instance, "id", "")
        name == DictGet(instance, "name", instance_id)
        region == DictGet(instance, "region", "unknown")
        cpu == get_latest_cpu_utilization(response).cpu
    IN  IF ~(check /\ DictGet(instance, "state", "") = "running") THEN <<>>
        ELSE IF cpu = None THEN <<>>
        ELSE IF cpu_band(cpu[1]) = "critical"
        THEN <<Alert("EC2", instance_id, name, region, "critical",
                     <<"High CPU utilization: ">> \o FormatCpu(cpu[1]) \o <<"%">>)>>
        ELSE IF cpu_band(cpu[1]) = "warning"
        THEN <<Alert("EC2", instance_id, name, region, "warning",
                     <<"Elevated CPU utilization: ">> \o FormatCpu(cpu[1]) \o <<"%">>)>>
        ELSE <<>>

\* detect_ec2_alerts lines 38-80, from record n on; cw[n] is the response the
\* lookup for record n gets.
RECURSIVE detect_ec2_from(_, _, _, _)
detect_ec2_from(instances, check, cw, n) ==
    IF n > Len(instances) THEN <<>>
    ELSE stopped_alerts(instances[n]) \o cpu_alerts(instances[n], check, cw[n])
         \o detect_ec2_from(instances, check, cw, n + 1)

detect_ec2_alerts(instances, check, cw) == detect_ec2_from(instances, check, cw, 1)

\* Whether a lookup of the scan lets an exception escape.
ec2_scan_raises(instances, check, cw) ==
    \E n \in 1..Len(instances) :
        /\ check
        /\ DictGet(instances[n], "state", "") = "running"
        /\ get_latest_cpu_utilization(cw[n]).raised

\* Variant: only the comparison with "available" is made.
rds_alerts_no_empty_check(instance) ==
    LET db_id == DictGet(instance, "id", "")
        st == DictGet(instance, "status", "")
    IN  IF st # "available"
        THEN <<Alert("RDS", db_id, db_id, DictGet(instance, "region", "unknown"),
                     "critical", <<"Database status: ", st>>)>>
        ELSE <<>>

\* detect_rds_alerts lines 98-111
rds_alerts(instance) ==
    LET db_id == DictGet(instance, "id", "")
        st == DictGet(instance, "status", "")
    IN  IF st # "" /\ st # "available"
        THEN <<Alert("RDS", db_id, db_id, DictGet(instance, "region", "unknown"),
                     "critical", <<"Database status: ", st>>)>>
        ELSE <<>>

RECURSIVE detect_rds_from(_, _)
detect_rds_from(instances, n) ==
    IF n > Len(instances) THEN <<>>
    ELSE rds_alerts(instances[n]) \o detect_rds_from(instances, n + 1)

detect_rds_alerts(instances) == detect_rds_from(instances, 1)

\* lambda a: 0 if a.severity == AlertSeverity.CRITICAL else 1
severity_key(a) == IF a.severity = "critical" THEN 0 ELSE 1

\* list.sort is stable: x goes behind every element whose key is not larger.
RECURSIVE insert_sorted(_, _)
insert_sorted(sorted, x) ==
    IF sorted = <<>> THEN <<x>>
    ELSE IF severity_key(Head(sorted)) <= severity_key(x)
    THEN <<Head(sorted)>> \o insert_sorted(Tail(sorted), x)
    ELSE <<x>> \o sorted

RECURSIVE sort_from(_, _)
sort_from(list, n) ==
    IF n = 0 THEN <<>>
    ELSE insert_sorted(sort_from(list, n - 1), list[n])

\* Variant: the list is returned as concatenated.
sort_by_severity_missing(list) == list

\* alerts.sort(key=...) of line 136
sort_by_severity(list) == sort_from(list, Len(list))

\* get_all_alerts lines 131-138
get_all_alerts(ec2, rds, check, cw) ==
    sort_by_severity(detect_ec2_alerts(ec2, check, cw) \o detect_rds_alerts(rds))

(***************************************************************************)
(* Inputs of get_all_alerts.                                               *)
(***************************************************************************)
MaxInstances == 2      \* longest EC2 list and longest RDS list

\* Latest averages next to the bounds 70 and 90.
CpuValues == {70 * Scale, 70 * Scale + 1, 90 * Scale, 90 * Scale + 1}

MetricResponses ==
    {MetricFailure, MetricResponse(<<>>)}
    \cup {MetricResponse(<<Datapoint(2, c)>>) : c \in CpuValues}
    \cup {MetricResponse(<<Datapoint(1, 95 * Scale), Datapoint(2, 50 * Scale)>>)}

\* The j-th EC2 record with the response its CPU lookup would get; the lookup
\* is only made for a running instance.
Ec2Inputs(j) ==
    {[record |-> [id |-> j, name |-> "web", region |-> "us-east-1", state |-> "running"],
      response |-> r] : r \in MetricResponses}
    \cup {[record |-> [id |-> j, name |-> "web", region |-> "us-east-1", state |-> st],
           response |-> MetricResponse(<<>>)] : st \in {"stopped", "terminated"}}
    \cup {[record |-> [id |-> j, name |-> "web", region |-> "us-east-1"],
           response |-> MetricResponse(<<>>)]}

Ec2InputLists ==
    UNION {{f \in [1..n -> UNION {Ec2Inputs(j) : j \in 1..n}] :
               \A j \in 1..n : f[j] \in Ec2Inputs(j)} : n \in 0..MaxInstances}

RdsRecords(j) ==
    {[id |-> j, region |-> "us-east-1", status |-> st]
        : st \in {"available", "", "stopped", "failed"}}
    \cup {[id |-> j, region |-> "us-east-1"]}

RdsLists ==
    UNION {{f \in [1..n -> UNION {RdsRecords(j) : j \in 1..n}] :
               \A j \in 1..n : f[j] \in RdsRecords(j)} : n \in 0..MaxInstances}

InitAlerts ==
    /\ LateIdle
    /\ FanOutIdle
    /\ HealthIdle
    /\ OverallIdle
    /\ \E inputs \in Ec2InputLists :
          /\ ec2_instances = [j \in 1..Len(inputs) |-> inputs[j].record]
          /\ cloudwatch = [j \in 1..Len(inputs) |-> inputs[j].response]
    /\ rds_instances \in RdsLists
    /\ check_cpu \in BOOLEAN
    /\ alerts = <<>>
    /\ apc = "call"

(***************************************************************************)
(* A view calls get_all_alerts(ec2_instances, rds_instances, check_cpu).   *)
(***************************************************************************)
GetAllAlerts ==
    /\ apc = "call"
    /\ IF ec2_scan_raises(ec2_instances, check_cpu, cloudwatch)
       THEN /\ apc' = "raised"
            /\ alerts' = alerts
       ELSE /\ apc' = "done"
            /\ alerts' = get_all_alerts(ec2_instances, rds_instances, check_cpu, cloudwatch)
    /\ UNCHANGED <<ec2_instances, rds_instances, check_cpu, cloudwatch,
                   fanout_vars, health_vars, query_fn, overall_vars, late_vars>>

NextAlerts == GetAllAlerts

SpecAlerts == InitAlerts /\ [][NextAlerts]_vars

(***************************************************************************)
(* End to end: inventory.py get_all_ec2_instances(regions) runs            *)
(* query_regions(list(regions), get_ec2_instances) with the default pool   *)
(* size and aggregate_results(..., key="instances"); the dashboard hands   *)
(* the list to get_all_alerts.                                             *)
(***************************************************************************)
E2ERegionLists ==
    {l \in SeqsUpTo({"us-east-1", "eu-west-1"}, 2) :
        \A a, b \in 1..Len(l) : l[a] = l[b] => a = b}

InitE2E ==
    /\ LateIdle
    /\ HealthIdle
    /\ AlertIdle
    /\ OverallIdle
    /\ query_fn = "get_ec2_instances"
    /\ regions \in E2ERegionLists
    /\ max_workers = MAX_WORKERS
    /\ pc = "submit"
    /\ fstate = [i \in 1..Len(regions) |-> "new"]
    /\ outcome = [i \in 1..Len(regions) |-> NoOutcome]
    /\ invocations = [i \in 1..Len(regions) |-> 0]
    /\ finish_order = <<>>
    /\ snapshot = {}
    /\ collected = {}
    /\ results = <<>>
    /\ aggregated = <<>>

\* dashboard.py line 26: get_all_alerts(ec2_instances, rds_instances,
\* check_cpu=False) on the aggregated compute list; the database inventory is
\* empty here, and no CPU lookup is made.
DashboardAlerts ==
    /\ pc = "aggregated"
    /\ query_fn = "get_ec2_instances"
    /\ apc = "idle"
    /\ ec2_instances' = aggregated
    /\ rds_instances' = <<>>
    /\ check_cpu' = FALSE
    /\ cloudwatch' = [j \in 1..Len(aggregated) |-> MetricResponse(<<>>)]
    /\ alerts' = get_all_alerts(aggregated, <<>>, FALSE,
                                [j \in 1..Len(aggregated) |-> MetricResponse(<<>>)])
    /\ apc' = "done"
    /\ UNCHANGED <<fanout_vars, health_vars, query_fn, overall_vars, late_vars>>

(***************************************************************************)
(* A query_regions call with a query function of which only the call       *)
(* matters, for the pool's scheduling.                                     *)
(***************************************************************************)
PoolRegionLists ==
    {l \in SeqsUpTo(Regions, MaxRegions) : \A a, b \in 1..Len(l) : l[a] = l[b] => a = b}

InitPool ==
    /\ LateIdle
    /\ HealthIdle
    /\ AlertIdle
    /\ OverallIdle
    /\ query_fn = "probe"
    /\ regions \in PoolRegionLists
    /\ max_workers \in 1..MaxPool
    /\ pc = "submit"
    /\ fstate = [i \in 1..Len(regions) |-> "new"]
    /\ outcome = [i \in 1..Len(regions) |-> NoOutcome]
    /\ invocations = [i \in 1..Len(regions) |-> 0]
    /\ finish_order = <<>>
    /\ snapshot = {}
    /\ collected = {}
    /\ results = <<>>
    /\ aggregated = <<>>

(***************************************************************************)
(* cloudwatch.py, the metric-fetching functions.  Each makes one           *)
(* get_metric_statistics call per metric name inside its own try block;    *)
(* calls maps a metric name to what that call does.                        *)
(***************************************************************************)
EC2_METRIC_NAMES == <<"CPUUtilization", "NetworkIn", "NetworkOut">>

RDS_METRIC_NAMES == <<"CPUUtilization", "DatabaseConnections", "FreeStorageSpace">>

RDS_HEALTH_METRICS ==
    <<"CPUUtilization", "FreeableMemory", "ReadLatency", "WriteLatency",
      "DiskQueueDepth", "DatabaseConnections">>

NamesOf(names) == {names[i] : i \in 1..Len(names)}

\* sorted(datapoints, key=lambda x: x["Timestamp"]), a stable sort
RECURSIVE insert_by_timestamp(_, _)
insert_by_timestamp(sorted, dp) ==
    IF sorted = <<>> THEN <<dp>>
    ELSE IF Head(sorted).Timestamp <= dp.Timestamp
    THEN <<Head(sorted)>> \o insert_by_timestamp(Tail(sorted), dp)
    ELSE <<dp>> \o sorted

RECURSIVE sort_by_timestamp_from(_, _)
sort_by_timestamp_from(datapoints, n) ==
    IF n = 0 THEN <<>>
    ELSE insert_by_timestamp(sort_by_timestamp_from(datapoints, n - 1), datapoints[n])

sort_by_timestamp(datapoints) == sort_by_timestamp_from(datapoints, Len(datapoints))

\* One pass of the loop body of the series functions (lines 30-52, 80-102,
\* 181-203): the sorted series, or [] when the call raised.
series_of(response) ==
    IF response.raises THEN <<>>
    ELSE LET sorted == sort_by_timestamp(response.Datapoints)
         IN  [i \in 1..Len(sorted) |->
                 [timestamp |-> sorted[i].Timestamp, value |-> sorted[i].Average]]

\* Variant: one try block around the whole loop; the first failing call ends
\* it and the dict built so far is returned.
fetch_series_one_try(names, calls) ==
    LET failing == {i \in 1..Len(names) : calls[names[i]].raises}
        done == IF failing = {} THEN Len(names)
                ELSE (CHOOSE i \in failing : \A j \in failing : i <= j) - 1
    IN  [n \in {names[i] : i \in 1..done} |-> series_of(calls[n])]

\* The loop of the series functions over their metric names.
fetch_series(names, calls) == [n \in NamesOf(names) |-> series_of(calls[n])]

get_ec2_metrics(calls) == fetch_series(EC2_METRIC_NAMES, calls)

get_rds_metrics(calls) == fetch_series(RDS_METRIC_NAMES, calls)

get_rds_health_metrics(calls) == fetch_series(RDS_HEALTH_METRICS, calls)

\* get_latest_rds_health lines 224-242: the Average of the latest datapoint,
\* or None without datapoints or when the call raised.
latest_of(response) ==
    IF response.raises THEN None
    ELSE IF response.Datapoints # <<>>
    THEN Some(latest_datapoint(response.Datapoints).Average)
    ELSE None

get_latest_rds_health(calls) == [n \in NamesOf(RDS_HEALTH_METRICS) |-> latest_of(calls[n])]

MetricFetchers ==
    {"get_ec2_metrics", "get_rds_metrics", "get_rds_health_metrics", "get_latest_rds_health"}

requested_names(fn) ==
    IF fn = "get_ec2_metrics" THEN EC2_METRIC_NAMES
    ELSE IF fn = "get_rds_metrics" THEN RDS_METRIC_NAMES
    ELSE RDS_HEALTH_METRICS

fetch_metrics(fn, calls) ==
    IF fn = "get_ec2_metrics" THEN get_ec2_metrics(calls)
    ELSE IF fn = "get_rds_metrics" THEN get_rds_metrics(calls)
    ELSE IF fn = "get_rds_health_metrics" THEN get_rds_health_metrics(calls)
    ELSE get_latest_rds_health(calls)

\* What one get_metric_statistics call can do: raise, or return no, one or
\* two datapoints (the two not in time order).
SeriesResponses ==
    {MetricFailure,
     MetricResponse(<<>>),
     MetricResponse(<<Datapoint(1, 40 * Scale)>>),
     MetricResponse(<<Datapoint(2, 80 * Scale), Datapoint(1, 60 * Scale)>>)}

InitMetrics ==
    /\ FanOutIdle
    /\ HealthIdle
    /\ AlertIdle
    /\ OverallIdle
    /\ BillingIdle
    /\ QueryCallIdle
    /\ MainIdle
    /\ CacheIdle
    /\ PipelineIdle
    /\ fetch_fn \in MetricFetchers
    /\ metric_calls \in [NamesOf(requested_names(fetch_fn)) -> SeriesResponses]
    /\ fetched = <<>>
    /\ mpc = "call"

FetchMetrics ==
    /\ mpc = "call"
    /\ fetched' = fetch_metrics(fetch_fn, metric_calls)
    /\ mpc' = "done"
    /\ UNCHANGED <<fetch_fn, metric_calls, fanout_vars, health_vars, query_fn,
                   alert_vars, overall_vars, billing_vars, query_call_vars,
                   main_vars, cache_vars, pipeline_vars>>

NextMetrics == FetchMetrics

SpecMetrics == InitMetrics /\ [][NextMetrics]_vars

(***************************************************************************)
(* Billing.  Amounts are whole cents.  ce tells what the Cost Explorer     *)
(* client does: whether the client can be created, what the month-to-date  *)
(* get_cost_and_usage call does, and whether the calls after it succeed.   *)
(***************************************************************************)
MaxPeriods == 2        \* most ResultsByTime entries of one response

CostAmounts == {0, 1050}

CeFailure(msg) == [raises |-> TRUE, error |-> msg, ResultsByTime |-> <<>>]

CeResponse(amounts) == [raises |-> FALSE, error |-> "", ResultsByTime |-> amounts]

CeResponses ==
    {CeFailure("AccessDeniedException"), CeFailure("timeout")}
    \cup {CeResponse(a) : a \in SeqsUpTo(CostAmounts, MaxPeriods)}

RECURSIVE SumAmounts(_, _)
SumAmounts(amounts, n) == IF n = 0 THEN 0 ELSE amounts[n] + SumAmounts(amounts, n - 1)

\* cost_explorer.py get_mtd_cost lines 162-190: get_client is outside the try
\* block; the except branch returns 0.0.
get_mtd_cost(c) ==
    IF ~c.client_ok THEN [raised |-> TRUE, value |-> None]
    ELSE IF c.mtd.raises THEN [raised |-> FALSE, value |-> Some(0)]
    ELSE [raised |-> FALSE,
          value |-> Some(SumAmounts(c.mtd.ResultsByTime, Len(c.mtd.ResultsByTime)))]

\* costs.py get_cost_summary lines 14-28: the forecast and the service
\* breakdown catch their API failures too; only get_client can raise.
get_cost_summary(c) ==
    IF get_mtd_cost(c).raised THEN [raised |-> TRUE, mtd_cost |-> None]
    ELSE [raised |-> FALSE, mtd_cost |-> get_mtd_cost(c).value]

\* dashboard.py lines 29-34 and 64-74: mtd_cost is None only when
\* get_cost_summary raised, and "N/A" is shown only for None.
dashboard_cost(c) ==
    IF get_cost_summary(c).raised THEN [available |-> FALSE, mtd_cost |-> 0]
    ELSE [available |-> TRUE, mtd_cost |-> get_cost_summary(c).mtd_cost[1]]

\* app_v2.py get_billing_data lines 569-739: every call is inside one try
\* block; the month-to-date cost is that of the first period.
get_billing_data(c) ==
    IF ~c.client_ok \/ c.mtd.raises \/ ~c.later_ok
    THEN [available |-> FALSE, mtd_cost |-> 0]
    ELSE [available |-> TRUE,
          mtd_cost |-> IF c.mtd.ResultsByTime # <<>> THEN c.mtd.ResultsByTime[1] ELSE 0]

billing_value(path, c) ==
    IF path = "app_v2" THEN get_billing_data(c) ELSE dashboard_cost(c)

InitBilling ==
    /\ FanOutIdle
    /\ HealthIdle
    /\ AlertIdle
    /\ OverallIdle
    /\ MetricFetchIdle
    /\ QueryCallIdle
    /\ MainIdle
    /\ CacheIdle
    /\ PipelineIdle
    /\ billing_path \in {"app_v2", "services"}
    /\ ce \in [client_ok : BOOLEAN, mtd : CeResponses, later_ok : BOOLEAN]
    /\ handed = <<>>
    /\ bpc = "call"

FetchBilling ==
    /\ bpc = "call"
    /\ handed' = billing_value(billing_path, ce)
    /\ bpc' = "done"
    /\ UNCHANGED <<billing_path, ce, fanout_vars, health_vars, query_fn,
                   alert_vars, overall_vars, metric_fetch_vars, query_call_vars,
                   main_vars, cache_vars, pipeline_vars>>

NextBilling == FetchBilling

SpecBilling == InitBilling /\ [][NextBilling]_vars

(***************************************************************************)
(* The per-region query functions.  provider tells what the describe call  *)
(* of the region does: it raises, or it returns raw instance descriptions  *)
(* (their identifier and their state or status).                           *)
(***************************************************************************)
ProviderFailure(msg) == [raises |-> TRUE, error |-> msg, items |-> <<>>]

ProviderResponse(items) == [raises |-> FALSE, error |-> "", items |-> items]

ProviderResponses ==
    {ProviderFailure(m) : m \in ErrorMessages}
    \cup UNION {{ProviderResponse([j \in 1..n |-> [Id |-> j, State |-> f[j]]])
                    : f \in [1..n -> {"up", "down"}]} : n \in 0..MaxRecords}

Returned(items) == [raises |-> FALSE, value |-> PyList(items), error |-> ""]

Raised(msg) == [raises |-> TRUE, value |-> PyList(<<>>), error |-> msg]

\* Variant: the provider calls sit in a try block whose except branch returns
\* the empty list.
get_ec2_instances_catching(region, p) ==
    IF p.raises THEN Returned(<<>>)
    ELSE Returned([j \in 1..Len(p.items) |->
            [id |-> p.items[j].Id, state |-> p.items[j].State, name |-> "",
             region |-> region]])

\* ec2.py get_ec2_instances lines 6-40: no try block, an exception of
\* get_client or of the paginator leaves the function.
get_ec2_instances(region, p) ==
    IF p.raises THEN Raised(p.error)
    ELSE Returned([j \in 1..Len(p.items) |->
            [id |-> p.items[j].Id, state |-> p.items[j].State, name |-> "",
             region |-> region]])

\* rds.py get_rds_instances lines 6-34: no try block either.
get_rds_instances(region, p) ==
    IF p.raises THEN Raised(p.error)
    ELSE Returned([j \in 1..Len(p.items) |->
            [id |-> p.items[j].Id, status |-> p.items[j].State, region |-> region]])

\* app_v2.py fetch_ec2_for_region lines 502-532: the client and the describe
\* call are inside try/except: pass, and the list built so far is returned.
fetch_ec2_for_region(region, p) ==
    IF p.raises THEN Returned(<<>>)
    ELSE Returned([j \in 1..Len(p.items) |->
            [k \in {"Instance ID", "State", "Region"} |->
                IF k = "Instance ID" THEN <<p.items[j].Id>>
                ELSE IF k = "State" THEN <<p.items[j].State>>
                ELSE <<region>>]])

\* app_v2.py fetch_rds_for_region lines 534-551
fetch_rds_for_region(region, p) ==
    IF p.raises THEN Returned(<<>>)
    ELSE Returned([j \in 1..Len(p.items) |->
            [k \in {"Identifier", "Status", "Region"} |->
                IF k = "Identifier" THEN <<p.items[j].Id>>
                ELSE IF k = "Status" THEN <<p.items[j].State>>
                ELSE <<region>>]])

QueryFunctions ==
    {"get_ec2_instances", "get_rds_instances", "fetch_ec2_for_region", "fetch_rds_for_region"}

call_query(fn, region, p) ==
    IF fn = "get_ec2_instances" THEN get_ec2_instances(region, p)
    ELSE IF fn = "get_rds_instances" THEN get_rds_instances(region, p)
    ELSE IF fn = "fetch_ec2_for_region" THEN fetch_ec2_for_region(region, p)
    ELSE fetch_rds_for_region(region, p)

InitQuery ==
    /\ FanOutIdle
    /\ HealthIdle
    /\ AlertIdle
    /\ OverallIdle
    /\ MetricFetchIdle
    /\ BillingIdle
    /\ MainIdle
    /\ CacheIdle
    /\ PipelineIdle
    /\ called_fn \in QueryFunctions
    /\ called_region \in {"us-east-1", "eu-west-1"}
    /\ provider \in ProviderResponses
    /\ call_result = <<>>
    /\ qpc = "call"

\* A fan-out's pool thread calls the query function with a region.
CallQuery ==
    /\ qpc = "call"
    /\ call_result' = call_query(called_fn, called_region, provider)
    /\ qpc' = "done"
    /\ UNCHANGED <<called_fn, called_region, provider, fanout_vars, health_vars,
                   query_fn, alert_vars, overall_vars, metric_fetch_vars,
                   billing_vars, main_vars, cache_vars, pipeline_vars>>

NextQuery == CallQuery

SpecQuery == InitQuery /\ [][NextQuery]_vars

(***************************************************************************)
(* app.py, one run of main().  Of a record its id, its region and its      *)
(* state or status are kept.                                               *)
(***************************************************************************)
DEMO_EC2 ==
    <<[id |-> "i-demo001", region |-> "us-east-1", state |-> "running"],
      [id |-> "i-demo002", region |-> "us-east-1", state |-> "running"],
      [id |-> "i-demo003", region |-> "us-west-2", state |-> "running"],
      [id |-> "i-demo004", region |-> "us-west-2", state |-> "stopped"],
      [id |-> "i-demo005", region |-> "eu-west-1", state |-> "running"]>>

DEMO_RDS ==
    <<[id |-> "prod-db", region |-> "us-east-1", status |-> "available"],
      [id |-> "analytics-db", region |-> "us-east-1", status |-> "available"],
      [id |-> "dev-db", region |-> "eu-west-1", status |-> "available"]>>

\* Variant: every demo record is shown, whatever the selection.
demo_records_unfiltered(demo, selection) == demo

\* lines 80-81: [i for i in DEMO if i["region"] in selected_regions]
demo_records(demo, selection) ==
    SelectSeq(demo, LAMBDA i : \E k \in 1..Len(selection) : selection[k] = i.region)

\* The sidebar's selection: distinct regions of its list, in any order.
Selections ==
    {l \in SeqsUpTo({"us-east-1", "us-west-2", "eu-west-1"}, MaxRegions) :
        \A a, b \in 1..Len(l) : l[a] = l[b] => a = b}

\* What get_all_ec2_instances / get_all_rds_instances can hand to main for a
\* selection: an exception, or the records the fan-out aggregated (here none
\* or one per region, in the selection's order), each stamped with its region.
LiveRecord(kind, region) ==
    IF kind = "ec2" THEN [id |-> "i-0a1b2c3d", region |-> region, state |-> "running"]
    ELSE [id |-> "orders-db", region |-> region, status |-> "available"]

RECURSIVE LiveLists(_, _, _)
LiveLists(kind, selection, n) ==
    IF n = 0 THEN {<<>>}
    ELSE {l \o extra : l \in LiveLists(kind, selection, n - 1),
                       extra \in {<<>>, <<LiveRecord(kind, selection[n])>>}}

InventoryOutcomes(kind, selection) ==
    {[raises |-> TRUE, value |-> <<>>]}
    \cup {[raises |-> FALSE, value |-> l] : l \in LiveLists(kind, selection, Len(selection))}

\* lines 84-96: the value of the call, or [] when it raised
loaded(o) == IF o.raises THEN <<>> ELSE o.value

InitMain ==
    /\ FanOutIdle
    /\ HealthIdle
    /\ AlertIdle
    /\ OverallIdle
    /\ MetricFetchIdle
    /\ BillingIdle
    /\ QueryCallIdle
    /\ CacheIdle
    /\ PipelineIdle
    /\ selected_regions \in Selections
    /\ credentials \in BOOLEAN
    /\ probes = 0
    /\ region_queries = 0
    /\ main_ec2 = <<>>
    /\ main_rds = <<>>
    /\ apppc = "start"

\* lines 68-73: without a selection main returns at once.
RenderSidebar ==
    /\ apppc = "start"
    /\ apppc' = IF selected_regions = <<>> THEN "no_regions" ELSE "check"
    /\ UNCHANGED <<selected_regions, credentials, probes, region_queries,
                   main_ec2, main_rds>>

\* line 76: demo_mode = not check_aws_credentials()
CheckCredentials ==
    /\ apppc = "check"
    /\ probes' = probes + 1
    /\ apppc' = IF credentials THEN "load_ec2" ELSE "demo"
    /\ UNCHANGED <<selected_regions, credentials, region_queries, main_ec2, main_rds>>

\* lines 78-81
DemoData ==
    /\ apppc = "demo"
    /\ main_ec2' = demo_records(DEMO_EC2, selected_regions)
    /\ main_rds' = demo_records(DEMO_RDS, selected_regions)
    /\ apppc' = "route"
    /\ UNCHANGED <<selected_regions, credentials, probes, region_queries>>

\* lines 84-89: get_all_ec2_instances(selected_regions); a call the cache
\* answers invokes no query function, another one invokes it once per region.
LoadEc2 ==
    /\ apppc = "load_ec2"
    /\ \E o \in InventoryOutcomes("ec2", selected_regions), cached \in BOOLEAN :
          /\ main_ec2' = loaded(o)
          /\ region_queries' = region_queries + (IF cached THEN 0 ELSE Len(selected_regions))
    /\ apppc' = "load_rds"
    /\ UNCHANGED <<selected_regions, credentials, probes, main_rds>>

\* lines 91-96
LoadRds ==
    /\ apppc = "load_rds"
    /\ \E o \in InventoryOutcomes("rds", selected_regions), cached \in BOOLEAN :
          /\ main_rds' = loaded(o)
          /\ region_queries' = region_queries + (IF cached THEN 0 ELSE Len(selected_regions))
    /\ apppc' = "route"
    /\ UNCHANGED <<selected_regions, credentials, probes, main_ec2>>

NextMain ==
    /\ \/ RenderSidebar
       \/ CheckCredentials
       \/ DemoData
       \/ LoadEc2
       \/ LoadRds
    /\ UNCHANGED <<fanout_vars, health_vars, query_fn, alert_vars, overall_vars,
                   metric_fetch_vars, billing_vars, query_call_vars, cache_vars,
                   pipeline_vars>>

SpecMain == InitMain /\ [][NextMain]_vars

(***************************************************************************)
(* services/inventory.py: get_all_ec2_instances behind                     *)
(* st.cache_data(ttl=300), and the sidebar's Refresh button.  The cache    *)
(* is Streamlit's: it keeps, per argument tuple, the value the body        *)
(* returned and serves it until the entry is TTL seconds old or the cache  *)
(* is cleared.  Of an entry the model also remembers whether a region had  *)
(* failed when the value was made (the value itself does not tell).        *)
(***************************************************************************)
TTL == 300

MaxTicks == 4

MaxRuns == 3

TickSeconds == 100

CacheKeys == {<<"us-east-1">>, <<"us-east-1", "eu-west-1">>}

\* What one invocation of get_ec2_instances does within a cached body.
CachedQueryOutcomes(region) ==
    {[raises |-> FALSE, value |-> PyList(<<Ec2Record(region, 1, "running")>>), error |-> ""],
     [raises |-> TRUE, value |-> PyList(<<>>), error |-> "timeout"]}

\* The orders in which as_completed can yield n futures.
YieldOrders(n) ==
    {o \in [1..n -> 1..n] : \A a, b \in 1..n : o[a] = o[b] => a = b}

\* query_regions lines 33-38 over a whole yield order
RECURSIVE collect_all(_, _, _, _)
collect_all(region_list, outcomes, order, n) ==
    IF n = 0 THEN <<>>
    ELSE store_result(collect_all(region_list, outcomes, order, n - 1),
                      region_list[order[n]], outcomes[order[n]]).results

\* lines 19-20: the body of get_all_ec2_instances
inventory_body(region_list, outcomes, order) ==
    aggregate_results(collect_all(region_list, outcomes, order, Len(region_list)), "instances")

\* The entry the cache holds for an argument tuple, or None.
cache_entry(c, key) ==
    IF \E i \in 1..Len(c) : c[i].k = key THEN Some(Get(c, key)) ELSE None

\* Variant: a value made while a region failed is not served again.
cache_valid_unless_failed(entry, t) ==
    entry # None /\ t - entry[1].at < TTL /\ ~entry[1].failed

\* st.cache_data(ttl=300): an entry is served while it is younger than the TTL
cache_valid(entry, t) == entry # None /\ t - entry[1].at < TTL

InitCache ==
    /\ FanOutIdle
    /\ HealthIdle
    /\ AlertIdle
    /\ OverallIdle
    /\ MetricFetchIdle
    /\ BillingIdle
    /\ QueryCallIdle
    /\ MainIdle
    /\ PipelineIdle
    /\ cache = <<>>
    /\ now = 0
    /\ cache_arg = <<>>
    /\ cache_returned = <<>>
    /\ fanout_runs = 0
    /\ cpc = "start"

\* A call of get_all_ec2_instances(key) that the cache answers.
CacheHit ==
    /\ \E key \in CacheKeys :
          /\ cache_valid(cache_entry(cache, key), now)
          /\ cache_arg' = key
          /\ cache_returned' = cache_entry(cache, key)[1].value
    /\ cpc' = "hit"
    /\ UNCHANGED <<cache, now, fanout_runs>>

\* A call of get_all_ec2_instances(key) that runs the body and stores its value.
CacheMiss ==
    /\ fanout_runs < MaxRuns
    /\ \E key \in CacheKeys :
          /\ ~cache_valid(cache_entry(cache, key), now)
          /\ \E outcomes \in [1..Len(key) -> UNION {CachedQueryOutcomes(r) : r \in {"us-east-1", "eu-west-1"}}],
                order \in YieldOrders(Len(key)) :
                /\ \A i \in 1..Len(key) : outcomes[i] \in CachedQueryOutcomes(key[i])
                /\ LET body_value == inventory_body(key, outcomes, order)
                   IN  /\ cache' = DictSet(cache, key,
                                           [value |-> body_value, at |-> now,
                                            failed |-> \E i \in 1..Len(key) : outcomes[i].raises])
                       /\ cache_returned' = body_value
          /\ cache_arg' = key
    /\ fanout_runs' = fanout_runs + 1
    /\ cpc' = "miss"
    /\ UNCHANGED now

\* Time passes.
Tick ==
    /\ now < MaxTicks * TickSeconds
    /\ now' = now + TickSeconds
    /\ cpc' = "tick"
    /\ UNCHANGED <<cache, cache_arg, cache_returned, fanout_runs>>

\* sidebar.py lines 75-77: st.cache_data.clear(); st.rerun()
Refresh ==
    /\ cache' = <<>>
    /\ cpc' = "refreshed"
    /\ UNCHANGED <<now, cache_arg, cache_returned, fanout_runs>>

NextCache ==
    /\ \/ CacheHit
       \/ CacheMiss
       \/ Tick
       \/ Refresh
    /\ UNCHANGED <<fanout_vars, health_vars, query_fn, alert_vars, overall_vars,
                   metric_fetch_vars, billing_vars, query_call_vars, main_vars,
                   pipeline_vars>>

SpecCache == InitCache /\ [][NextCache]_vars

(***************************************************************************)
(* ui/rds_health_view.py: the health pipeline, fetch_health_for_instance   *)
(* and fetch_all_health.                                                   *)
(***************************************************************************)
\* rds_health.py lines 28-46 (the classes the model uses)
DEFAULT_MAX_CONNECTIONS == ("db.t3.micro" :> 112) @@ ("db.r5.large" :> 1000)

\* lines 239-248: DEFAULT_MAX_CONNECTIONS.get(instance_class)
get_max_connections_for_class(instance_class) ==
    IF instance_class \in DOMAIN DEFAULT_MAX_CONNECTIONS
    THEN Some(DEFAULT_MAX_CONNECTIONS[instance_class])
    ELSE None

EmptyDict == [n \in {} |-> None]

\* What one run of fetch_health_for_instance meets: get_client raises, or
\* every metric's call answers (or fails on its own).
FetchRaises == [raises |-> TRUE, calls |-> EmptyDict]

FetchAnswers(calls) == [raises |-> FALSE, calls |-> calls]

\* Variant: the instance class supplies the total memory (1 GiB for a
\* db.t3.micro, 16 GiB for a db.r5.large), in MiB.
fetch_health_for_instance_class_memory(db_id, region, instance_class, o) ==
    IF o.raises THEN [raises |-> TRUE, value |-> EmptyDict]
    ELSE LET latest_metrics == get_latest_rds_health(o.calls)
             max_conn == get_max_connections_for_class(instance_class)
             total == IF instance_class = "db.t3.micro" THEN Some(1024)
                      ELSE IF instance_class = "db.r5.large" THEN Some(16384)
                      ELSE None
         IN  [raises |-> FALSE, value |->
                      [db_id |-> db_id,
                       region |-> region,
                       instance_class |-> instance_class,
                       metrics |-> latest_metrics,
                       overall_status |-> get_overall_health(latest_metrics, total, max_conn),
                       max_connections |-> max_conn]]

\* lines 20-44: get_overall_health is called without total_memory_bytes
fetch_health_for_instance(db_id, region, instance_class, o) ==
    IF o.raises THEN [raises |-> TRUE, value |-> EmptyDict]
    ELSE LET latest_metrics == get_latest_rds_health(o.calls)
             max_conn == get_max_connections_for_class(instance_class)
         IN  [raises |-> FALSE, value |->
                      [db_id |-> db_id,
                       region |-> region,
                       instance_class |-> instance_class,
                       metrics |-> latest_metrics,
                       overall_status |-> get_overall_health(latest_metrics, None, max_conn),
                       max_connections |-> max_conn]]

\* Variant: an instance whose fetch raised is left out of the list.
handle_future_skip_failed(res, inst, o) ==
    LET h == fetch_health_for_instance(inst.Identifier, inst.Region,
                                       DictGet(inst, "Class", ""), o)
    IN  IF ~h.raises
        THEN Append(res, ("engine" :> DictGet(inst, "Engine", "")) @@ h.value)
        ELSE res

\* lines 70-85: the body of the as_completed loop for one future
handle_future(res, inst, o) ==
    LET h == fetch_health_for_instance(inst.Identifier, inst.Region,
                                       DictGet(inst, "Class", ""), o)
    IN  IF ~h.raises
        THEN Append(res, ("engine" :> DictGet(inst, "Engine", "")) @@ h.value)
        ELSE Append(res, [db_id |-> inst.Identifier,
                          region |-> inst.Region,
                          engine |-> DictGet(inst, "Engine", ""),
                          instance_class |-> DictGet(inst, "Class", ""),
                          metrics |-> EmptyDict,
                          overall_status |-> UNKNOWN,
                          max_connections |-> None])

\* app_v2.py lines 540-548: the j-th database record handed to the pipeline
DbInstance(j) ==
    [Identifier |-> <<"db", j>>,
     Engine |-> "mysql",
     Class |-> IF j % 2 = 1 THEN "db.t3.micro" ELSE "db.r5.large",
     Region |-> "us-east-1"]

DbLists == {[j \in 1..n |-> DbInstance(j)] : n \in 0..MaxInstances}

\* Free memory in MiB around 10% and 25% of 2 GiB (204.8 and 512).
MemoryValues == {204, 205, 511, 512}

HealthCalls ==
    {[n \in NamesOf(RDS_HEALTH_METRICS) |->
         IF n = "FreeableMemory" THEN mem
         ELSE IF n = "CPUUtilization" THEN cpu
         ELSE IF n = "DatabaseConnections" THEN MetricResponse(<<Datapoint(1, 100)>>)
         ELSE MetricResponse(<<>>)] :
       mem \in {MetricFailure} \cup {MetricResponse(<<Datapoint(1, v)>>) : v \in MemoryValues},
       cpu \in {MetricResponse(<<Datapoint(1, 50 * Scale)>>),
                MetricResponse(<<Datapoint(1, 95 * Scale)>>)}}

FetchOutcomes == {FetchRaises} \cup {FetchAnswers(c) : c \in HealthCalls}

InitPipeline ==
    /\ FanOutIdle
    /\ HealthIdle
    /\ AlertIdle
    /\ OverallIdle
    /\ MetricFetchIdle
    /\ BillingIdle
    /\ QueryCallIdle
    /\ MainIdle
    /\ CacheIdle
    /\ db_instances \in DbLists
    /\ fetch_outcomes = [i \in 1..Len(db_instances) |-> None]
    /\ handled = {}
    /\ health_results = <<>>
    /\ fpc = "start"

\* lines 60-69: every instance is submitted to the pool.
SubmitFetches ==
    /\ fpc = "start"
    /\ fpc' = "collect"
    /\ UNCHANGED <<db_instances, fetch_outcomes, handled, health_results>>

\* A worker's fetch_health_for_instance returns or raises; its future is done.
FetchFinishes ==
    /\ fpc = "collect"
    /\ \E i \in 1..Len(db_instances) :
          /\ fetch_outcomes[i] = None
          /\ \E o \in FetchOutcomes :
                fetch_outcomes' = [fetch_outcomes EXCEPT ![i] = Some(o)]
    /\ UNCHANGED <<db_instances, handled, health_results, fpc>>

\* lines 70-85: as_completed yields a finished future (whichever order the
\* futures finish in, every order of the finished ones can be yielded).
HandleFuture ==
    /\ fpc = "collect"
    /\ \E i \in 1..Len(db_instances) \ handled :
          /\ fetch_outcomes[i] # None
          /\ health_results' = handle_future(health_results, db_instances[i],
                                             fetch_outcomes[i][1])
          /\ handled' = handled \cup {i}
    /\ UNCHANGED <<db_instances, fetch_outcomes, fpc>>

\* line 87: return results
ReturnHealth ==
    /\ fpc = "collect"
    /\ handled = 1..Len(db_instances)
    /\ fpc' = "returned"
    /\ UNCHANGED <<db_instances, fetch_outcomes, handled, health_results>>

NextPipeline ==
    /\ \/ SubmitFetches
       \/ FetchFinishes
       \/ HandleFuture
       \/ ReturnHealth
    /\ UNCHANGED <<fanout_vars, health_vars, query_fn, alert_vars, overall_vars,
                   metric_fetch_vars, billing_vars, query_call_vars, main_vars,
                   cache_vars>>

SpecPipeline == InitPipeline /\ [][NextPipeline]_vars

Next ==
    \/ Submit
    \/ WorkerStart
    \/ WorkerFinish
    \/ AsCompleted
    \/ Collect
    \/ Return
    \/ Aggregate

Spec == Init /\ [][Next]_vars

NextE2E ==
    \/ Submit
    \/ WorkerStart
    \/ WorkerFinish
    \/ AsCompleted
    \/ Collect
    \/ Return
    \/ Aggregate
    \/ DashboardAlerts

SpecE2E == InitE2E /\ [][NextE2E]_vars

\* The pool's threads run: a thread that can take a queued work item takes
\* it, and a call that was started comes to an end (the AWS clients of
\* client.py have connect and read timeouts and give up after three
\* attempts).
PoolFairness == WF_vars(WorkerStart) /\ WF_vars(WorkerFinish)

SpecPool == InitPool /\ [][Next]_vars /\ PoolFairness

\* The calling thread runs as well: it submits, enters as_completed, handles
\* a future that is ready and returns when it can.
CallerFairness ==
    /\ WF_vars(Submit)
    /\ WF_vars(AsCompleted)
    /\ WF_vars(Collect)
    /\ WF_vars(Return)
    /\ WF_vars(Aggregate)

SpecReturn == InitPool /\ [][Next]_vars /\ PoolFairness /\ CallerFairness

(***************************************************************************)
(* Properties of the region fan-out, checked under Spec.                   *)
(***************************************************************************)
Range(seq) == {seq[i] : i \in 1..Len(seq)}

Distinct == \A a, b \in Futures : a # b => regions[a] # regions[b]

Ids(items) == [j \in 1..Len(items) |-> items[j].id]

RECURSIVE SumSuccessful(_)
SumSuccessful(n) ==
    IF n = 0 THEN 0
    ELSE (IF outcome[n].raises THEN 0 ELSE Len(outcome[n].value.items))
         + SumSuccessful(n - 1)

\* C1: when query_regions returns for a non-empty list of distinct regions,
\* the key set of the returned mapping is exactly the set of regions, one
\* entry per region, whichever queries raised and in whatever order the
\* regions completed.
FanOutCompleteness ==
    (pc = "returned" /\ regions # <<>> /\ Distinct) =>
        /\ Keys(results) = Range(regions)
        /\ Len(results) = Len(regions)

FanOutCompletenessWitness ==
    /\ pc = "returned"
    /\ Distinct
    /\ Len(regions) >= 2
    /\ outcome[1].raises
    /\ ~outcome[2].raises
    /\ finish_order[1] = 2

\* C2: when query_regions returns for distinct regions, every region was
\* invoked exactly once and the entry of every region whose query did not
\* raise is exactly the value its query returned, whatever the other regions
\* did.
FailureIsolation ==
    (pc = "returned" /\ Distinct) =>
        \A i \in Futures :
            /\ invocations[i] = 1
            /\ ~outcome[i].raises =>
                    /\ regions[i] \in Keys(results)
                    /\ Get(results, regions[i]) = outcome[i].value

FailureIsolationWitness ==
    /\ pc = "returned"
    /\ Distinct
    /\ Len(regions) >= 2
    /\ ~outcome[1].raises
    /\ Len(outcome[1].value.items) = 2
    /\ outcome[2].raises
    /\ finish_order = <<1, 2>>

RegionStamping ==
    (pc = "aggregated" /\ Distinct) =>
        /\ \A n \in 1..Len(aggregated) :
              /\ "region" \in DOMAIN aggregated[n]
              /\ aggregated[n].region \in Range(regions)
        /\ \A i \in Futures :
              ~outcome[i].raises =>
                  Ids(SelectSeq(aggregated, LAMBDA rec : rec.region = regions[i]))
                    = Ids(outcome[i].value.items)

RegionStampingWitness ==
    /\ pc = "aggregated"
    /\ Distinct
    /\ \E i \in Futures :
          /\ ~outcome[i].raises
          /\ Len(outcome[i].value.items) = 2
          /\ "region" \in DOMAIN outcome[i].value.items[2]
          /\ outcome[i].value.items[2].region # regions[i]
    /\ \E i \in Futures :
          /\ ~outcome[i].raises
          /\ Len(outcome[i].value.items) = 2
          /\ "region" \notin DOMAIN outcome[i].value.items[1]

\* C5: a region whose entry is an error descriptor contributes no record and
\* no error text: the aggregated list holds only stamped records, none of a
\* failed region, and is as long as the record lists of the successful
\* regions together.
FailedRegionsContributeNothing ==
    (pc = "aggregated" /\ Distinct) =>
        /\ Len(aggregated) = SumSuccessful(Len(regions))
        /\ \A n \in 1..Len(aggregated) : DOMAIN aggregated[n] = {"id", "region"}
        /\ \A i \in Futures :
              outcome[i].raises =>
                  \A n \in 1..Len(aggregated) : aggregated[n].region # regions[i]

FailedRegionsContributeNothingWitness ==
    /\ pc = "aggregated"
    /\ Distinct
    /\ Len(regions) >= 2
    /\ outcome[1].raises
    /\ ~outcome[2].raises
    /\ Len(aggregated) = 2

(***************************************************************************)
(* Properties of the classifier, checked under SpecHealth.                 *)
(***************************************************************************)
Present == value # None

\* C6: calculate_metric_status always returns one of the four statuses (it
\* never raises); it returns UNKNOWN for an absent value, whatever the metric
\* name and context, and for every metric name that is not in the table.
ClassifierTotal ==
    hpc = "done" =>
        /\ status \in {"healthy", "warning", "critical", "unknown"}
        /\ value = None => status = "unknown"
        /\ metric_name \notin DOMAIN METRIC_THRESHOLDS => status = "unknown"

ClassifierTotalWitness ==
    /\ hpc = "done"
    /\ metric_name = "FreeableMemory"
    /\ value = None
    /\ total_memory_bytes = Some(0)
    /\ status = "unknown"

\* C7 as stated: with a total > 0 the FreeableMemory bands include their
\* boundaries (ratio <= 10% is CRITICAL, else ratio <= 25% is WARNING).
MemoryBandsInclusive ==
    (hpc = "done" /\ metric_name = "FreeableMemory" /\ Present
       /\ total_memory_bytes # None /\ total_memory_bytes[1] > 0) =>
        status = IF value[1] * 100 <= 10 * total_memory_bytes[1] THEN "critical"
                 ELSE IF value[1] * 100 <= 25 * total_memory_bytes[1] THEN "warning"
                 ELSE "healthy"

\* C7 amended: with a total > 0 FreeableMemory is CRITICAL when the ratio
\* free/total is below 10%, else WARNING when it is below 25%, else HEALTHY;
\* a ratio of exactly 10% is WARNING and of exactly 25% is HEALTHY.
MemoryBandsExclusive ==
    (hpc = "done" /\ metric_name = "FreeableMemory" /\ Present
       /\ total_memory_bytes # None /\ total_memory_bytes[1] > 0) =>
        status = IF value[1] * 100 < 10 * total_memory_bytes[1] THEN "critical"
                 ELSE IF value[1] * 100 < 25 * total_memory_bytes[1] THEN "warning"
                 ELSE "healthy"

MemoryBandsExclusiveWitness ==
    /\ hpc = "done"
    /\ metric_name = "FreeableMemory"
    /\ value = Some(10)
    /\ total_memory_bytes = Some(100)
    /\ status = "warning"

\* The documented bands of the higher-is-worse metrics, in fixed point.
ClaimedWarning ==
    [CPUUtilization |-> 70 * Scale, ReadLatency |-> 20, WriteLatency |-> 20,
     DiskQueueDepth |-> 10 * Scale]

ClaimedCritical ==
    [CPUUtilization |-> 90 * Scale, ReadLatency |-> 50, WriteLatency |-> 50,
     DiskQueueDepth |-> 50 * Scale]

AsymmetricFallback ==
    (hpc = "done" /\ Present) =>
        /\ (metric_name = "FreeableMemory"
              /\ (total_memory_bytes = None \/ total_memory_bytes[1] <= 0)) =>
                status = IF value[1] * 10 < 2048 THEN "critical"
                         ELSE IF value[1] * 4 < 2048 THEN "warning"
                         ELSE "healthy"
        /\ (metric_name = "DatabaseConnections"
              /\ (max_connections = None \/ max_connections[1] <= 0)) =>
                status = "healthy"

AsymmetricFallbackWitness ==
    /\ hpc = "done"
    /\ metric_name = "FreeableMemory"
    /\ value = Some(205)
    /\ total_memory_bytes = None
    /\ status = "warning"

(***************************************************************************)
(* Properties of get_overall_health, checked under SpecOverall.            *)
(***************************************************************************)
MetricStatuses ==
    {calculate_metric_status(n, metrics[n], total_memory_bytes, max_connections)
       : n \in DOMAIN metrics}

\* C11: the overall status is CRITICAL if any metric is CRITICAL, else WARNING
\* if any is WARNING, else UNKNOWN if every metric is UNKNOWN (also when there
\* is no metric), else HEALTHY; HEALTHY mixed with UNKNOWN gives HEALTHY.
WorstOfReduction ==
    opc = "done" =>
        overall = IF "critical" \in MetricStatuses THEN "critical"
                  ELSE IF "warning" \in MetricStatuses THEN "warning"
                  ELSE IF MetricStatuses \subseteq {"unknown"} THEN "unknown"
                  ELSE "healthy"

WorstOfReductionWitness ==
    /\ opc = "done"
    /\ MetricStatuses = {"healthy", "unknown"}
    /\ overall = "healthy"

(***************************************************************************)
(* Properties of the alert detectors, checked under SpecAlerts.            *)
(***************************************************************************)
\* The alerts of the returned list about one resource.
AlertsFor(type, id) ==
    SelectSeq(alerts, LAMBDA a : a.resource_type = type /\ a.resource_id = id)

IsCpuAlert(a) ==
    a.message[1] \in {"High CPU utilization: ", "Elevated CPU utilization: "}

CpuAlertsFor(id) == SelectSeq(AlertsFor("EC2", id), IsCpuAlert)

State(j) == DictGet(ec2_instances[j], "state", "")

LatestCpu(j) == get_latest_cpu_utilization(cloudwatch[j]).cpu

\* The running instances whose lookup gave a value, when the check is on.
CpuChecked ==
    {j \in 1..Len(ec2_instances) :
        check_cpu /\ State(j) = "running" /\ LatestCpu(j) # None}

OneCpuAlert(j, severity, text) ==
    /\ Len(CpuAlertsFor(ec2_instances[j].id)) = 1
    /\ CpuAlertsFor(ec2_instances[j].id)[1].severity = severity
    /\ CpuAlertsFor(ec2_instances[j].id)[1].message[1] = text

\* C12 as stated: CRITICAL "High CPU utilization" when c >= 90, else WARNING
\* "Elevated CPU utilization" when c >= 70, else no CPU alert (boundaries
\* inclusive).
CpuBandsInclusive ==
    apc = "done" =>
        \A j \in CpuChecked :
            IF LatestCpu(j)[1] >= 90 * Scale
            THEN OneCpuAlert(j, "critical", "High CPU utilization: ")
            ELSE IF LatestCpu(j)[1] >= 70 * Scale
            THEN OneCpuAlert(j, "warning", "Elevated CPU utilization: ")
            ELSE CpuAlertsFor(ec2_instances[j].id) = <<>>

\* C12, amended: CRITICAL "High CPU utilization" when c > 90, else WARNING
\* "Elevated CPU utilization" when c > 70, else no CPU alert; exactly 90 is a
\* WARNING and exactly 70 gives no alert.
CpuBandsExclusive ==
    apc = "done" =>
        \A j \in CpuChecked :
            IF LatestCpu(j)[1] > 90 * Scale
            THEN OneCpuAlert(j, "critical", "High CPU utilization: ")
            ELSE IF LatestCpu(j)[1] > 70 * Scale
            THEN OneCpuAlert(j, "warning", "Elevated CPU utilization: ")
            ELSE CpuAlertsFor(ec2_instances[j].id) = <<>>

CpuBandsExclusiveWitness ==
    /\ apc = "done"
    /\ \E j \in CpuChecked :
          /\ LatestCpu(j) = Some(90 * Scale)
          /\ OneCpuAlert(j, "warning", "Elevated CPU utilization: ")
    /\ \E j \in CpuChecked :
          /\ LatestCpu(j) = Some(70 * Scale)
          /\ AlertsFor("EC2", ec2_instances[j].id) = <<>>

Concatenation ==
    detect_ec2_alerts(ec2_instances, check_cpu, cloudwatch)
        \o detect_rds_alerts(rds_instances)

IsCritical(a) == a.severity = "critical"

IsWarning(a) == a.severity = "warning"

\* C13: in the returned list every CRITICAL alert precedes every WARNING
\* alert, and each severity band keeps the order of the concatenation of the
\* compute alerts and the database alerts.
AlertOrdering ==
    apc = "done" =>
        /\ \A a, b \in 1..Len(alerts) :
              (IsCritical(alerts[a]) /\ IsWarning(alerts[b])) => a < b
        /\ SelectSeq(alerts, IsCritical) = SelectSeq(Concatenation, IsCritical)
        /\ SelectSeq(alerts, IsWarning) = SelectSeq(Concatenation, IsWarning)
        /\ Len(alerts) = Len(Concatenation)

AlertOrderingWitness ==
    /\ apc = "done"
    /\ Len(alerts) = 4
    /\ IsWarning(Concatenation[1])
    /\ IsCritical(Concatenation[2])
    /\ alerts[1].resource_type = "EC2" /\ IsCritical(alerts[1])
    /\ alerts[2].resource_type = "RDS" /\ alerts[2].resource_id = 1
    /\ alerts[3].resource_type = "RDS" /\ alerts[3].resource_id = 2
    /\ alerts[4].resource_type = "EC2" /\ IsWarning(alerts[4])

\* C14: every record whose state is "stopped" gets exactly one alert, a WARNING
\* with message "Instance is stopped"; with the CPU check disabled a record in
\* any other state gets no alert.
StoppedAlerts ==
    apc = "done" =>
        \A j \in 1..Len(ec2_instances) :
            /\ State(j) = "stopped" =>
                  /\ Len(AlertsFor("EC2", ec2_instances[j].id)) = 1
                  /\ AlertsFor("EC2", ec2_instances[j].id)[1].severity = "warning"
                  /\ AlertsFor("EC2", ec2_instances[j].id)[1].message
                        = <<"Instance is stopped">>
            /\ (~check_cpu /\ State(j) # "stopped") =>
                  AlertsFor("EC2", ec2_instances[j].id) = <<>>

StoppedAlertsWitness ==
    /\ apc = "done"
    /\ ~check_cpu
    /\ Len(ec2_instances) = 2
    /\ State(1) = "terminated"
    /\ State(2) = "stopped"
    /\ Len(SelectSeq(alerts, LAMBDA a : a.resource_type = "EC2")) = 1
    /\ AlertsFor("EC2", 2)[1].message = <<"Instance is stopped">>

\* C15: every database record whose status is non-empty and not "available"
\* gets exactly one alert, a CRITICAL with message "Database status: {status}";
\* a record whose status is "available", empty or missing gets none.
DatabaseAlerts ==
    apc = "done" =>
        \A j \in 1..Len(rds_instances) :
            IF "status" \in DOMAIN rds_instances[j]
               /\ rds_instances[j].status \notin {"", "available"}
            THEN /\ Len(AlertsFor("RDS", rds_instances[j].id)) = 1
                 /\ AlertsFor("RDS", rds_instances[j].id)[1].severity = "critical"
                 /\ AlertsFor("RDS", rds_instances[j].id)[1].message
                       = <<"Database status: ", rds_instances[j].status>>
            ELSE AlertsFor("RDS", rds_instances[j].id) = <<>>

DatabaseAlertsWitness ==
    /\ apc = "done"
    /\ Len(rds_instances) = 2
    /\ DictGet(rds_instances[1], "status", "missing") = ""
    /\ DictGet(rds_instances[2], "status", "missing") = "failed"
    /\ AlertsFor("RDS", 1) = <<>>
    /\ AlertsFor("RDS", 2)[1].message = <<"Database status: ", "failed">>

\* The running instances whose lookup gave no value, when the check is on.
CpuAbsent ==
    {j \in 1..Len(ec2_instances) :
        check_cpu /\ State(j) = "running"
          /\ (cloudwatch[j].raises \/ cloudwatch[j].Datapoints = <<>>)}

\* C16: with the CPU check on, a running instance whose lookup found no
\* datapoints or whose metric call failed gets no alert, the call returns
\* normally and the other records are still scanned.
AbsentCpuIsSilent ==
    /\ apc # "raised"
    /\ apc = "done" =>
          /\ \A j \in CpuAbsent : AlertsFor("EC2", ec2_instances[j].id) = <<>>
          /\ CpuAbsent # {} =>
                \A j \in 1..Len(ec2_instances) :
                    /\ State(j) = "stopped" =>
                          Len(AlertsFor("EC2", ec2_instances[j].id)) = 1
                    /\ (j \in CpuChecked /\ LatestCpu(j)[1] > 90 * Scale) =>
                          Len(AlertsFor("EC2", ec2_instances[j].id)) = 1

AbsentCpuIsSilentWitness ==
    /\ apc = "done"
    /\ Len(ec2_instances) = 2
    /\ 1 \in CpuAbsent
    /\ cloudwatch[1].raises
    /\ 2 \in CpuChecked
    /\ Len(alerts) = 1
    /\ alerts[1].resource_id = 2
    /\ alerts[1].message = <<"High CPU utilization: ", "90", ".", "0", "%">>

(***************************************************************************)
(* Properties of the inventory-to-alerts path, checked under SpecE2E.      *)
(***************************************************************************)
Stopped(list) == {j \in 1..Len(list) : DictGet(list[j], "state", "") = "stopped"}

\* C17: when one region returns compute records and the other region's query
\* raises, the aggregated list holds exactly the successful region's records,
\* each stamped with that region, the alert list (CPU check off) holds exactly
\* one WARNING "Instance is stopped" per stopped instance and nothing else, the
\* failing region contributes no record and no exception reaches the caller.
EndToEnd ==
    /\ pc # "raised"
    /\ apc # "raised"
    /\ apc = "done" =>
        \A ok, bad \in Futures :
            (~outcome[ok].raises /\ outcome[bad].raises) =>
                LET returned == outcome[ok].value.items
                IN  /\ Len(aggregated) = Len(returned)
                    /\ \A j \in 1..Len(returned) :
                          /\ aggregated[j].id = returned[j].id
                          /\ aggregated[j].state = returned[j].state
                          /\ aggregated[j].region = regions[ok]
                    /\ \A j \in 1..Len(aggregated) : aggregated[j].region # regions[bad]
                    /\ Len(alerts) = Cardinality(Stopped(returned))
                    /\ \A a \in 1..Len(alerts) :
                          /\ alerts[a].severity = "warning"
                          /\ alerts[a].message = <<"Instance is stopped">>
                          /\ alerts[a].region = regions[ok]
                    /\ \A j \in Stopped(returned) :
                          Len(AlertsFor("EC2", returned[j].id)) = 1

EndToEndWitness ==
    /\ apc = "done"
    /\ pc = "aggregated"
    /\ regions = <<"us-east-1", "eu-west-1">>
    /\ outcome[2].raises
    /\ ~outcome[1].raises
    /\ Len(aggregated) = 3
    /\ aggregated[1].state = "running"
    /\ aggregated[2].state = "running"
    /\ aggregated[3].state = "stopped"
    /\ \A j \in 1..3 : aggregated[j].region = "us-east-1"
    /\ Len(alerts) = 1
    /\ alerts[1].resource_id = <<"us-east-1", 3>>
    /\ alerts[1].message = <<"Instance is stopped">>

(***************************************************************************)
(* Properties of the pool, checked under SpecPool.                         *)
(***************************************************************************)
Started(i) == i \in Futures /\ fstate[i] \in {"running", "finished"}

Queued(i) == i \in Futures /\ fstate[i] = "pending"

\* C19: at no moment are more than max_workers calls of the query function in
\* flight, however many regions there are, and every region that waits in the
\* queue is eventually started.
BoundedConcurrency ==
    /\ [](Cardinality(Running) <= max_workers)
    /\ \A i \in 1..MaxRegions : Queued(i) ~> Started(i)

BoundedConcurrencyWitness ==
    /\ Len(regions) > max_workers
    /\ Cardinality(Running) = max_workers
    /\ \E i \in Futures : Queued(i)
    /\ \A i \in Running : invocations[i] = 1

\* How often query_fn was called with a region.
RECURSIVE CallsFrom(_, _)
CallsFrom(region, n) ==
    IF n > Len(regions) THEN 0
    ELSE (IF regions[n] = region THEN invocations[n] ELSE 0) + CallsFrom(region, n + 1)

\* C20: over distinct regions the query function is never called more than once
\* with a region, and when query_regions has returned it was called exactly
\* once with each, also with a region whose call raised.
NoRetries ==
    Distinct =>
        \A i \in Futures :
            /\ CallsFrom(regions[i], 1) <= 1
            /\ fstate[i] = "finished" => CallsFrom(regions[i], 1) = 1
            /\ pc \in {"returned", "aggregated"} => CallsFrom(regions[i], 1) = 1

NoRetriesWitness ==
    /\ pc = "returned"
    /\ Len(regions) = 2
    /\ Distinct
    /\ outcome[1].raises
    /\ ~outcome[2].raises
    /\ CallsFrom(regions[1], 1) = 1
    /\ CallsFrom(regions[2], 1) = 1
    /\ Get(results, regions[1]) = ErrorDescriptor(outcome[1].error)

(***************************************************************************)
(* Properties of the metric-fetching functions, checked under SpecMetrics. *)
(***************************************************************************)
\* What the call for one metric name alone determines.
SeriesMatches(series, response) ==
    /\ Len(series) = Len(response.Datapoints)
    /\ \A i \in 1..(Len(series) - 1) : series[i].timestamp <= series[i + 1].timestamp
    /\ \A i \in 1..Len(response.Datapoints) :
          \E k \in 1..Len(series) :
              /\ series[k].timestamp = response.Datapoints[i].Timestamp
              /\ series[k].value = response.Datapoints[i].Average

LatestMatches(latest, response) ==
    IF response.Datapoints = <<>> THEN latest = None
    ELSE /\ latest # None
         /\ \E i \in 1..Len(response.Datapoints) :
               /\ response.Datapoints[i].Average = latest[1]
               /\ \A j \in 1..Len(response.Datapoints) :
                     response.Datapoints[j].Timestamp <= response.Datapoints[i].Timestamp

\* C21: the result has an entry for every requested metric name; a name whose
\* call raised has the empty series (the absent latest value), and every other
\* name has what its own call returned.
MetricFetchIsolation ==
    mpc = "done" =>
        /\ DOMAIN fetched = NamesOf(requested_names(fetch_fn))
        /\ \A n \in NamesOf(requested_names(fetch_fn)) :
              IF metric_calls[n].raises
              THEN fetched[n] = <<>>
              ELSE IF fetch_fn = "get_latest_rds_health"
              THEN LatestMatches(fetched[n], metric_calls[n])
              ELSE SeriesMatches(fetched[n], metric_calls[n])

MetricFetchIsolationWitness ==
    /\ mpc = "done"
    /\ fetch_fn = "get_rds_health_metrics"
    /\ metric_calls["CPUUtilization"].raises
    /\ Len(metric_calls["FreeableMemory"].Datapoints) = 2
    /\ fetched["CPUUtilization"] = <<>>
    /\ fetched["FreeableMemory"] =
          <<[timestamp |-> 1, value |-> 60 * Scale], [timestamp |-> 2, value |-> 80 * Scale]>>
    /\ fetched["DatabaseConnections"] = <<[timestamp |-> 1, value |-> 40 * Scale]>>

(***************************************************************************)
(* Properties of the billing paths, checked under SpecBilling.             *)
(***************************************************************************)
\* The month-to-date call, or on the app_v2 path any call, fails.
BillingCallFails ==
    \/ ~ce.client_ok
    \/ ce.mtd.raises
    \/ (billing_path = "app_v2" /\ ~ce.later_ok)

ZeroCostFetch == [client_ok |-> TRUE, mtd |-> CeResponse(<<0>>), later_ok |-> TRUE]

\* C22: on both paths a failed billing call hands on a value that is marked
\* unavailable and differs from what a successful fetch of zero cost hands on.
BillingFailureDistinguishable ==
    (bpc = "done" /\ BillingCallFails) =>
        /\ ~handed.available
        /\ handed # billing_value(billing_path, ZeroCostFetch)

(***************************************************************************)
(* Properties of the return of query_regions, checked under SpecReturn.    *)
(***************************************************************************)
HasReturned == pc \in {"returned", "aggregated"}

\* C23: query_regions has returned only when every dispatched call has come to
\* its end (returned or raised), and when every call ends it does return, for
\* every number of regions and every pool size.
WaitsForCompletion ==
    /\ [](HasReturned => \A i \in Futures : fstate[i] = "finished" /\ invocations[i] = 1)
    /\ <>(pc = "returned")

WaitsForCompletionWitness ==
    /\ pc = "returned"
    /\ Len(regions) > max_workers
    /\ \A i \in Futures : fstate[i] = "finished"
    /\ \E i \in Futures : outcome[i].raises
    /\ \E i \in Futures : ~outcome[i].raises

(***************************************************************************)
(* Properties of the per-region query functions, checked under SpecQuery.  *)
(***************************************************************************)
\* What the as_completed loop of query_regions records for the call.
Recorded == Get(store_result(<<>>, called_region, call_result).results, called_region)

\* C24 as stated: each of the four query functions returns an empty list when
\* its provider call fails, so that no failure is observed and no error
\* descriptor is recorded.
QueryFunctionsNeverRaise ==
    (qpc = "done" /\ provider.raises) =>
        /\ ~call_result.raises
        /\ call_result.value = PyList(<<>>)
        /\ Recorded.type # "dict"

\* C24, amended: fetch_ec2_for_region and fetch_rds_for_region return an empty
\* list when their provider call fails; get_ec2_instances and
\* get_rds_instances raise the provider's exception, which query_regions
\* records as the region's error descriptor.
QueryFailureHandling ==
    (qpc = "done" /\ provider.raises) =>
        IF called_fn \in {"fetch_ec2_for_region", "fetch_rds_for_region"}
        THEN /\ ~call_result.raises
             /\ call_result.value = PyList(<<>>)
        ELSE /\ call_result.raises
             /\ call_result.error = provider.error
             /\ Recorded = ErrorDescriptor(provider.error)

QueryFailureHandlingWitness ==
    /\ qpc = "done"
    /\ called_fn = "get_ec2_instances"
    /\ provider = ProviderFailure("AccessDenied")
    /\ call_result.raises
    /\ Recorded = [type |-> "dict", error |-> "AccessDenied", instances |-> <<>>]

(***************************************************************************)
(* Completion order and repeated regions, checked under Spec.              *)
(***************************************************************************)
\* What the mapping holds for a future, by what its call did alone.
EntryOf(i) ==
    IF outcome[i].raises
    THEN [type |-> "dict", error |-> outcome[i].error, instances |-> <<>>]
    ELSE outcome[i].value

\* The records of future i as they appear in the aggregated list.
StampedRecordsOf(i) ==
    IF outcome[i].raises THEN <<>>
    ELSE [j \in 1..Len(outcome[i].value.items) |->
             [id |-> outcome[i].value.items[j].id, region |-> regions[i]]]

\* C25: for distinct regions the returned mapping is determined by what the
\* regions' calls did, whatever the order of their completions; the aggregated
\* list holds each region's stamped records in their own order and nothing
\* else, so that only the order of the regions' blocks can differ.
CompletionOrderIndependence ==
    Distinct =>
        /\ HasReturned =>
              /\ Keys(results) = Range(regions)
              /\ pc = "returned" => \A i \in Futures : Get(results, regions[i]) = EntryOf(i)
        /\ pc = "aggregated" =>
              /\ Len(aggregated) = SumSuccessful(Len(regions))
              /\ \A i \in Futures :
                    SelectSeq(aggregated, LAMBDA rec : rec.region = regions[i])
                      = StampedRecordsOf(i)

CompletionOrderIndependenceWitness ==
    /\ pc = "aggregated"
    /\ regions = <<"us-east-1", "eu-west-1">>
    /\ finish_order = <<2, 1>>
    /\ Len(aggregated) = 4
    /\ aggregated[1] = [id |-> 1, region |-> "eu-west-1"]
    /\ aggregated[2] = [id |-> 2, region |-> "eu-west-1"]
    /\ aggregated[3] = [id |-> 1, region |-> "us-east-1"]
    /\ aggregated[4] = [id |-> 2, region |-> "us-east-1"]

\* The occurrence of a region that completed last.
LastCompleted(region) ==
    finish_order[CHOOSE k \in 1..Len(finish_order) :
                    /\ regions[finish_order[k]] = region
                    /\ \A m \in (k + 1)..Len(finish_order) :
                          regions[finish_order[m]] # region]

\* C27 as stated: the query function is invoked once per occurrence, the
\* mapping has one entry per region, and that entry holds the outcome of the
\* occurrence that completed last.
LastCompletedWins ==
    pc = "returned" =>
        /\ \A i \in Futures : invocations[i] = 1
        /\ Len(results) = Cardinality(Range(regions))
        /\ \A i \in Futures :
              Get(results, regions[i]) = EntryOf(LastCompleted(regions[i]))

\* C27, amended: the query function is invoked once per occurrence and the
\* mapping has one entry per region; each future the as_completed loop yields
\* overwrites the entry of its region with its own outcome and leaves the
\* other entries alone, so the entry that stays is that of the occurrence
\* yielded last.
LastYieldedWins ==
    [][/\ \A i \in Futures : invocations'[i] <= 1
       /\ \A a, b \in 1..Len(results') : results'[a].k = results'[b].k => a = b
       /\ \A i \in Futures :
             (i \notin collected /\ i \in collected') =>
                 /\ Get(results', regions[i]) = EntryOf(i)
                 /\ Keys(results') = Keys(results) \cup {regions[i]}
                 /\ \A r \in Keys(results) \ {regions[i]} : Get(results', r) = Get(results, r)
       /\ pc' = "returned" =>
             /\ \A i \in Futures : invocations'[i] = 1
             /\ Keys(results') = Range(regions)]_vars

LastYieldedWinsWitness ==
    /\ pc = "returned"
    /\ regions = <<"us-east-1", "us-east-1">>
    /\ invocations = <<1, 1>>
    /\ finish_order = <<1, 2>>
    /\ outcome[1].raises
    /\ ~outcome[2].raises
    /\ Len(results) = 1
    /\ Get(results, "us-east-1") = EntryOf(1)

(***************************************************************************)
(* Properties of main(), checked under SpecMain.                           *)
(***************************************************************************)
DemoIds ==
    {DEMO_EC2[k].id : k \in 1..Len(DEMO_EC2)} \cup {DEMO_RDS[k].id : k \in 1..Len(DEMO_RDS)}

Selected(region) == \E k \in 1..Len(selected_regions) : selected_regions[k] = region

\* list holds exactly the records of demo whose region is selected, in order
ExactlySelectedDemo(list, demo) ==
    /\ \A k \in 1..Len(list) : \E d \in 1..Len(demo) : list[k] = demo[d] /\ Selected(demo[d].region)
    /\ \A d \in 1..Len(demo) :
          Selected(demo[d].region) => \E k \in 1..Len(list) : list[k] = demo[d]
    /\ Len(list) = Cardinality({d \in 1..Len(demo) : Selected(demo[d].region)})

\* C26: in a run of main() with a non-empty selection the credential probe is
\* consulted once; when it reports false no region query is invoked and the
\* inventories are exactly the demo records of the selected regions; when it
\* reports true the inventories hold no demo record.
CredentialGating ==
    /\ probes <= 1
    /\ apppc \in {"demo", "load_ec2", "load_rds", "route"} => probes = 1
    /\ ~credentials => region_queries = 0
    /\ (apppc = "route" /\ ~credentials) =>
          /\ ExactlySelectedDemo(main_ec2, DEMO_EC2)
          /\ ExactlySelectedDemo(main_rds, DEMO_RDS)
    /\ credentials =>
          /\ \A k \in 1..Len(main_ec2) : main_ec2[k].id \notin DemoIds
          /\ \A k \in 1..Len(main_rds) : main_rds[k].id \notin DemoIds

CredentialGatingWitness ==
    /\ apppc = "route"
    /\ ~credentials
    /\ selected_regions = <<"eu-west-1", "us-west-2">>
    /\ probes = 1
    /\ region_queries = 0
    /\ Len(main_ec2) = 3
    /\ main_ec2[3].id = "i-demo005"
    /\ Len(main_rds) = 1

(***************************************************************************)
(* Properties of the cached inventory, checked under SpecCache.            *)
(***************************************************************************)
\* The step is a call of get_all_ec2_instances with the argument key.
IsCallWith(key) == cpc' \in {"hit", "miss"} /\ cache_arg' = key

\* C28: once a call returned for a region tuple (also when a region failed), a
\* later call with the same tuple before the TTL has expired and before a
\* Refresh returns the same list without running the fan-out; after a Refresh
\* the next call runs the fan-out again.
CachedInventoryServed ==
    [][\A key \in CacheKeys :
          LET entry == cache_entry(cache, key)
          IN  /\ (IsCallWith(key) /\ entry # None /\ now - entry[1].at < TTL) =>
                    /\ cache_returned' = entry[1].value
                    /\ fanout_runs' = fanout_runs
              /\ (IsCallWith(key) /\ cache = <<>>) => fanout_runs' = fanout_runs + 1
              /\ (cpc' = "refreshed") => cache' = <<>>]_vars

\* A value made while eu-west-1 failed has been served again from the cache.
CachedInventoryServedWitness ==
    /\ cpc = "hit"
    /\ cache_arg = <<"us-east-1", "eu-west-1">>
    /\ cache_entry(cache, cache_arg) # None
    /\ cache_entry(cache, cache_arg)[1].failed
    /\ cache_returned = cache_entry(cache, cache_arg)[1].value
    /\ Len(cache_returned) = 1
    /\ now = cache_entry(cache, cache_arg)[1].at + 2 * TickSeconds
    /\ fanout_runs = 1

(***************************************************************************)
(* Properties of the health pipeline, checked under SpecPipeline.          *)
(***************************************************************************)
EntriesFor(i) ==
    {k \in 1..Len(health_results) : health_results[k].db_id = db_instances[i].Identifier}

\* C29: fetch_all_health returns one entry per input instance in every
\* completion order; an instance whose fetch raised gets empty metrics and
\* UNKNOWN, and the entries of the others are what their own fetch gave.
OneHealthEntryPerInstance ==
    fpc = "returned" =>
        /\ Len(health_results) = Len(db_instances)
        /\ \A i \in 1..Len(db_instances) :
              /\ Cardinality(EntriesFor(i)) = 1
              /\ \A k \in EntriesFor(i) :
                    IF fetch_outcomes[i][1].raises
                    THEN /\ health_results[k].metrics = EmptyDict
                         /\ health_results[k].overall_status = UNKNOWN
                    ELSE /\ DOMAIN health_results[k].metrics = NamesOf(RDS_HEALTH_METRICS)
                         /\ \A n \in NamesOf(RDS_HEALTH_METRICS) :
                               health_results[k].metrics[n]
                                   = latest_of(fetch_outcomes[i][1].calls[n])

\* The first instance's fetch raised and was handled last; the second one's
\* entry carries its metrics.
OneHealthEntryPerInstanceWitness ==
    /\ fpc = "returned"
    /\ Len(db_instances) = 2
    /\ fetch_outcomes[1][1].raises
    /\ ~fetch_outcomes[2][1].raises
    /\ health_results[1].db_id = db_instances[2].Identifier
    /\ health_results[1].metrics["FreeableMemory"] = Some(511)
    /\ health_results[2].db_id = db_instances[1].Identifier
    /\ health_results[2].overall_status = UNKNOWN

BelowTenPercent(v) == v * Scale < 100 * DEFAULT_TOTAL_MEMORY

BelowQuarter(v) == v * Scale < 250 * DEFAULT_TOTAL_MEMORY

HasFreeMemory(h) ==
    /\ "FreeableMemory" \in DOMAIN h.metrics
    /\ h.metrics["FreeableMemory"] # None

\* C30 as stated: an instance is marked CRITICAL whenever its free memory is
\* below 10% of 2 GiB and WARNING whenever it is (otherwise) below 25% of
\* 2 GiB, whatever its class.
MemoryBandsDecideOverall ==
    \A k \in 1..Len(health_results) :
        LET h == health_results[k]
        IN  HasFreeMemory(h) =>
              LET v == h.metrics["FreeableMemory"][1]
              IN  /\ BelowTenPercent(v) => h.overall_status = CRITICAL
                  /\ (BelowQuarter(v) /\ ~BelowTenPercent(v)) => h.overall_status = WARNING

\* Another metric of the entry is beyond its own critical threshold.
OtherMetricCritical(h) ==
    \/ /\ h.metrics["CPUUtilization"] # None
       /\ h.metrics["CPUUtilization"][1] >= 90 * Scale
    \/ /\ h.metrics["DatabaseConnections"] # None
       /\ h.max_connections # None
       /\ h.metrics["DatabaseConnections"][1] * 100 >= 95 * h.max_connections[1]

\* C30 as amended: below 10% of 2 GiB the instance is CRITICAL; from 10% to
\* below 25% it is WARNING unless another metric is critical, and then
\* CRITICAL; the class plays no part.
MemoryAgainstDefaultTotal ==
    \A k \in 1..Len(health_results) :
        LET h == health_results[k]
        IN  HasFreeMemory(h) =>
              LET v == h.metrics["FreeableMemory"][1]
              IN  /\ BelowTenPercent(v) => h.overall_status = CRITICAL
                  /\ (BelowQuarter(v) /\ ~BelowTenPercent(v)) =>
                        h.overall_status = IF OtherMetricCritical(h) THEN CRITICAL ELSE WARNING

\* 204 MiB free is CRITICAL on a db.t3.micro (nearly 20% of its 1 GiB), and
\* 511 MiB free is WARNING on a db.r5.large.
MemoryAgainstDefaultTotalWitness ==
    /\ Len(health_results) = 2
    /\ \E k \in 1..2 :
          /\ health_results[k].instance_class = "db.t3.micro"
          /\ HasFreeMemory(health_results[k])
          /\ health_results[k].metrics["FreeableMemory"] = Some(204)
          /\ health_results[k].metrics["CPUUtilization"] = Some(50 * Scale)
          /\ health_results[k].overall_status = CRITICAL
    /\ \E k \in 1..2 :
          /\ health_results[k].instance_class = "db.r5.large"
          /\ HasFreeMemory(health_results[k])
          /\ health_results[k].metrics["FreeableMemory"] = Some(511)
          /\ health_results[k].overall_status = WARNING

====
